---------------------------- MODULE Spec2Model ----------------------------
(***************************************************************************)
(* future-fit: body-composition estimation (bodyFatCalculator.ts), the     *)
(* rules-based plan generator (workoutPlans.ts) and the scan flow of the   *)
(* scan page (scan/page.tsx).                                              *)
(*                                                                         *)
(* JavaScript numbers are modelled as records [k, v]: k is the kind        *)
(* ("fin", "nan", "pinf", "ninf", or "undef" for an absent optional        *)
(* field) and v the fixed-point value of a finite number.  Units:          *)
(*   circumferences           tenths of a centimetre                       *)
(*   height, age              whole units (cm, years)                      *)
(*   normalised coordinates   hundredths                                   *)
(*   log10 values             thousandths                                  *)
(*   body-fat percentages     hundredths of a percentage point             *)
(***************************************************************************)
EXTENDS Integers, Sequences, FiniteSets, TLC

VARIABLES
    fn,             \* pure-function harness: the exported function last called
    arg,            \* its argument
    ret,            \* what it returned or threw
    currentStep,    \* ScanPage state (scan/page.tsx:18)
    frontPhoto,     \* scan/page.tsx:19
    sidePhoto,      \* scan/page.tsx:20
    isProcessing,   \* scan/page.tsx:21
    bodyFatResult,  \* scan/page.tsx:22
    pp,             \* the running processPhotos invocation (its position and closure)
    scans,          \* number of processPhotos invocations started so far
    saving,         \* the handleSaveResults invocations (request in flight or settled)
    page,           \* the route the browser shows
    dash,           \* DashboardPage state and the position of its loadUserData
    camera,         \* CameraCapture state, and the media streams it acquired
    mockUserProfiles,   \* user-profile route module state (part_001:5)
    mockScanResults,    \* scan-results route module state (part_001:107)
    now,            \* the clock, in milliseconds
    req,            \* the request a route handler served last
    res             \* and its response

vars == <<fn, arg, ret, currentStep, frontPhoto, sidePhoto, isProcessing,
          bodyFatResult, pp, scans, saving, page, dash, camera, mockUserProfiles,
          mockScanResults, now, req, res>>

fnVars == <<fn, arg, ret>>
scanVars == <<currentStep, frontPhoto, sidePhoto, isProcessing, bodyFatResult, pp, scans>>
navVars == <<saving, page, dash, camera>>
apiVars == <<mockUserProfiles, mockScanResults, now, req, res>>

---------------------------------------------------------------------------
(* Bounds *)

\* normalised landmark coordinates are drawn from {0, 1/CoordSteps, ..., 1}
CoordSteps == 2

\* processPhotos invocations (scan, retake, scan, ...) per behaviour
MaxScans == 2

\* entries the scan-results store grows to
MaxStored == 2

\* milliseconds the clock advances
MaxClock == 1

\* handleSaveResults invocations per behaviour
MaxSaves == 1

\* media streams acquired per behaviour
MaxStreams == 2

\* getUserMedia calls in flight at a time
MaxPending == 2

---------------------------------------------------------------------------
(* JavaScript numbers *)

Fin(x) == [k |-> "fin", v |-> x]
NaN == [k |-> "nan", v |-> 0]
PInf == [k |-> "pinf", v |-> 0]
NInf == [k |-> "ninf", v |-> 0]
Undef == [k |-> "undef", v |-> 0]

IsFin(a) == a.k = "fin"
IsNaN(a) == a.k = "nan"

Abs(x) == IF x < 0 THEN -x ELSE x

\* a < b on numbers that are not NaN
NumLess(a, b) ==
    CASE a.k = "ninf" -> b.k # "ninf"
      [] a.k = "pinf" -> FALSE
      [] OTHER -> IF b.k = "pinf" THEN TRUE
                  ELSE IF b.k = "ninf" THEN FALSE
                  ELSE a.v < b.v

\* Math.max and Math.min: NaN if either argument is NaN
MathMax(a, b) == IF IsNaN(a) \/ IsNaN(b) THEN NaN ELSE IF NumLess(a, b) THEN b ELSE a
MathMin(a, b) == IF IsNaN(a) \/ IsNaN(b) THEN NaN ELSE IF NumLess(a, b) THEN a ELSE b

NumNeg(a) ==
    CASE a.k = "fin" -> Fin(-a.v)
      [] a.k = "pinf" -> NInf
      [] a.k = "ninf" -> PInf
      [] OTHER -> NaN

\* a + b; undefined converts to NaN, Infinity - Infinity is NaN
NumAdd(a, b) ==
    IF a.k \in {"nan", "undef"} \/ b.k \in {"nan", "undef"} THEN NaN
    ELSE IF IsFin(a) /\ IsFin(b) THEN Fin(a.v + b.v)
    ELSE IF IsFin(a) THEN b
    ELSE IF IsFin(b) THEN a
    ELSE IF a.k = b.k THEN a ELSE NaN

NumSub(a, b) == NumAdd(a, NumNeg(b))

\* a > b (false when either side is NaN or undefined)
NumGreater(a, b) ==
    /\ a.k \notin {"nan", "undef"}
    /\ b.k \notin {"nan", "undef"}
    /\ NumLess(b, a)

\* JavaScript truthiness of a number-or-undefined: 0, NaN and undefined are falsy
Truthy(a) == ~(a.k \in {"nan", "undef"} \/ (IsFin(a) /\ a.v = 0))

RECURSIVE Pow10Below(_, _)
\* the largest power of ten p * 10^j that is <= n
Pow10Below(n, p) == IF p * 10 <= n THEN Pow10Below(n, p * 10) ELSE p

RECURSIVE Digits10(_)
\* floor(log10(n)) for n >= 1
Digits10(n) == IF n < 10 THEN 0 ELSE 1 + Digits10(n \div 10)

RECURSIVE LogFrac(_, _, _)
\* binary digits of log10(m / 4096) for 4096 <= m < 40960, by repeated squaring;
\* the result counts 1024ths
LogFrac(m, i, acc) ==
    IF i = 0 THEN acc
    ELSE LET sq == (m * m) \div 4096
         IN  IF sq >= 40960 THEN LogFrac(sq \div 10, i - 1, 2 * acc + 1)
             ELSE LogFrac(sq, i - 1, 2 * acc)

\* 1000 * log10(n) for an integer n >= 1, to within 3 thousandths
Log10Milli(n) ==
    Digits10(n) * 1000
        + (LogFrac((n * 4096) \div Pow10Below(n, 1), 10, 0) * 1000) \div 1024

\* Math.log10 of a number whose value counts 1/unit (unit a power of ten, given
\* by its decimal exponent unitExp): log10(0) = -Infinity, log10(x < 0) = NaN
MathLog10(a, unitExp) ==
    CASE a.k \in {"nan", "undef", "ninf"} -> NaN
      [] a.k = "pinf" -> PInf
      [] OTHER -> IF a.v < 0 THEN NaN
                  ELSE IF a.v = 0 THEN NInf
                  ELSE Fin(Log10Milli(a.v) - 1000 * unitExp)


---------------------------------------------------------------------------
(* bodyFatCalculator.ts *)

\* widthX * (userHeight / est) * Math.PI, where est is estimatedBodyHeightPixels:
\* a division by zero gives an infinite (or NaN) pixelToCmRatio, and 0 * Infinity
\* is NaN.  Math.PI is taken as 355/113.
TimesRatioPi(widthX, userHeight, est) ==
    IF est = 0
    THEN IF userHeight = 0 \/ widthX = 0 THEN NaN
         ELSE IF userHeight > 0 THEN PInf ELSE NInf
    ELSE Fin((((widthX * userHeight) \div est) * 355) \div 113)

calculateCircumferences(landmarks, userHeight, imageWidth, imageHeight) ==
    LET estimatedBodyHeightPixels ==
            Abs(landmarks.leftAnkle.y - landmarks.leftShoulder.y) * imageHeight
        waistWidth == Abs(landmarks.leftHip.x - landmarks.rightHip.x) * imageWidth
        waistCircumference ==
            TimesRatioPi(waistWidth * 10, userHeight, estimatedBodyHeightPixels)
        \* neckWidth is shoulder width * 0.3
        shoulderWidth ==
            Abs(landmarks.leftShoulder.x - landmarks.rightShoulder.x) * imageWidth
        neckCircumference ==
            TimesRatioPi(shoulderWidth * 3, userHeight, estimatedBodyHeightPixels)
        hipCircumference ==
            IF landmarks.hip.present
            THEN TimesRatioPi(waistWidth * 10, userHeight, estimatedBodyHeightPixels)
            ELSE Undef
    IN  [ waist |-> MathMax(waistCircumference, Fin(500)),
          neck  |-> MathMax(neckCircumference, Fin(250)),
          hip   |-> hipCircumference ]

\* the argument of the logarithm: waist - neck (male), waist + hip - neck (female)
LogArgument(measurements) ==
    IF measurements.sex = "male"
    THEN NumSub(measurements.waist, measurements.neck)
    ELSE NumSub(NumAdd(measurements.waist, measurements.hip), measurements.neck)

\* c * a for an integer constant c # 0
NumTimes(c, a) ==
    CASE a.k = "fin" -> Fin(c * a.v)
      [] a.k = "pinf" -> IF c > 0 THEN PInf ELSE NInf
      [] a.k = "ninf" -> IF c > 0 THEN NInf ELSE PInf
      [] OTHER -> NaN

\* c0 - a * logArg + b * logHeight, with c0, a, b counting 1/100000 and the
\* logarithms thousandths; the result counts 1/10000
Denominator(c0, a, logArg, b, logHeight) ==
    LET sum == NumAdd(Fin(c0 * 1000),
                      NumAdd(NumTimes(-a, logArg), NumTimes(b, logHeight)))
    IN  IF IsFin(sum) THEN Fin(sum.v \div 10000) ELSE sum

\* 495 / d - 450 in hundredths: 495 / 0 is Infinity, 495 / (+-Infinity) is 0
NavyFormula(d) ==
    CASE d.k = "nan" -> NaN
      [] d.k \in {"pinf", "ninf"} -> Fin(-45000)
      [] OTHER -> IF d.v = 0 THEN PInf
                  ELSE Fin((495000000 \div d.v) - 45000)

Return(x) == [tag |-> "return", value |-> x, error |-> ""]
Throw(e) == [tag |-> "throw", value |-> Undef, error |-> e]

\* calculateBodyFatPercentage without the hip check of lines 94-96
calculateBodyFatPercentage_NoHipCheck(measurements) ==
    LET logArg == MathLog10(LogArgument(measurements), 1)
        logHeight == MathLog10(measurements.height, 0)
    IN  IF measurements.sex = "male"
        THEN Return(MathMax(Fin(300), MathMin(Fin(5000), NavyFormula(
                 Denominator(103240, 19077, logArg, 15456, logHeight)))))
        ELSE Return(MathMax(Fin(800), MathMin(Fin(5000), NavyFormula(
                 Denominator(129579, 35004, logArg, 22100, logHeight)))))

calculateBodyFatPercentage(measurements) ==
    IF measurements.sex = "male"
    THEN LET logWaistNeck == MathLog10(LogArgument(measurements), 1)
             logHeight == MathLog10(measurements.height, 0)
             bodyFat == NavyFormula(
                            Denominator(103240, 19077, logWaistNeck, 15456, logHeight))
         IN  Return(MathMax(Fin(300), MathMin(Fin(5000), bodyFat)))
    ELSE IF ~Truthy(measurements.hip)
         THEN Throw("Hip measurement required for female body fat calculation")
         ELSE LET logWaistHipNeck == MathLog10(LogArgument(measurements), 1)
                  logHeight == MathLog10(measurements.height, 0)
                  bodyFat == NavyFormula(
                                 Denominator(129579, 35004, logWaistHipNeck,
                                             22100, logHeight))
              IN  Return(MathMax(Fin(800), MathMin(Fin(5000), bodyFat)))

Point(px, py) == [x |-> px, y |-> py]

mockPoseDetection(imageData) ==
    [ leftShoulder  |-> Point(30, 20),
      rightShoulder |-> Point(70, 20),
      leftHip       |-> Point(35, 50),
      rightHip      |-> Point(65, 50),
      leftAnkle     |-> Point(40, 90),
      hip           |-> [present |-> TRUE, x |-> 50, y |-> 55] ]

\* a variant that returns the varied value without the final clamp
processBodyComposition_NoFinalClamp(front, side, userProfile, random) ==
    LET frontLandmarks == mockPoseDetection(front)
        measurements ==
            calculateCircumferences(frontLandmarks, userProfile.height, 1280, 720)
        bodyMeasurements ==
            [ waist |-> measurements.waist, neck |-> measurements.neck,
              hip |-> measurements.hip, height |-> Fin(userProfile.height),
              weight |-> Fin(userProfile.weight), age |-> Fin(userProfile.age),
              sex |-> userProfile.sex ]
        bodyFatPercentage == calculateBodyFatPercentage(bodyMeasurements)
        variation == (random - 50) * 2
        finalBodyFat == NumAdd(bodyFatPercentage.value, Fin(variation))
    IN  IF bodyFatPercentage.tag = "throw"
        THEN [ tag |-> "throw", error |-> "Failed to process body composition",
               bodyFatPercentage |-> Undef, measurements |-> bodyMeasurements,
               confidence |-> Undef, front |-> front, side |-> side ]
        ELSE [ tag |-> "return", error |-> "",
               bodyFatPercentage |-> finalBodyFat,
               measurements |-> bodyMeasurements,
               \* confidence: 0.85, in hundredths
               confidence |-> Fin(85), front |-> front, side |-> side ]

\* random is the value of Math.random(), in hundredths (0 .. 99)
processBodyComposition(front, side, userProfile, random) ==
    LET frontLandmarks == mockPoseDetection(front)
        measurements ==
            calculateCircumferences(frontLandmarks, userProfile.height, 1280, 720)
        bodyMeasurements ==
            [ waist |-> measurements.waist, neck |-> measurements.neck,
              hip |-> measurements.hip, height |-> Fin(userProfile.height),
              weight |-> Fin(userProfile.weight), age |-> Fin(userProfile.age),
              sex |-> userProfile.sex ]
        bodyFatPercentage == calculateBodyFatPercentage(bodyMeasurements)
        variation == (random - 50) * 2
        finalBodyFat == NumAdd(bodyFatPercentage.value, Fin(variation))
    IN  IF bodyFatPercentage.tag = "throw"
        THEN [ tag |-> "throw", error |-> "Failed to process body composition",
               bodyFatPercentage |-> Undef, measurements |-> bodyMeasurements,
               confidence |-> Undef, front |-> front, side |-> side ]
        ELSE [ tag |-> "return", error |-> "",
               bodyFatPercentage |-> MathMax(Fin(500), MathMin(Fin(4500), finalBodyFat)),
               measurements |-> bodyMeasurements,
               \* confidence: 0.85, in hundredths
               confidence |-> Fin(85), front |-> front, side |-> side ]

---------------------------------------------------------------------------
(* workoutPlans.ts: the workout plan generator.  The string fields the     *)
(* customisation copies untouched (description, type, instructions, reps,  *)
(* notes) are left out of the records.                                     *)

\* an exercise with sets and rest, and one with a duration and an optional rest
Strength(name, sets, rest) ==
    [name |-> name, sets |-> Fin(sets), duration |-> Undef, rest |-> Fin(rest)]
Timed(name, duration, rest) ==
    [name |-> name, sets |-> Undef, duration |-> Fin(duration), rest |-> rest]

Workout(name, duration, exercises) ==
    [name |-> name, duration |-> duration, exercises |-> exercises]

FatLossProgram ==
    [ title |-> "Fat Loss Program", duration |-> 12, restDays |-> <<"Sunday">>,
      workouts |-> <<
        Workout("Full Body Strength", 45, <<
            Strength("Squats", 4, 60), Strength("Push-ups", 3, 45),
            Strength("Bent-over Rows", 3, 60), Strength("Lunges", 3, 45),
            Strength("Plank", 3, 30), Strength("Burpees", 3, 60) >>),
        Workout("HIIT Cardio", 25, <<
            Timed("Jumping Jacks", 30, Fin(30)), Timed("High Knees", 30, Fin(30)),
            Timed("Mountain Climbers", 30, Fin(30)), Timed("Burpees", 30, Fin(30)),
            Timed("Jump Squats", 30, Fin(30)) >>),
        Workout("Steady State Cardio", 30, <<
            Timed("Running/Jogging", 30, Undef), Timed("Cycling", 30, Undef),
            Timed("Swimming", 30, Undef) >>) >> ]

MuscleBuildingProgram ==
    [ title |-> "Muscle Building Program", duration |-> 16,
      restDays |-> <<"Wednesday", "Sunday">>,
      workouts |-> <<
        Workout("Push Day", 60, <<
            Strength("Bench Press", 4, 120), Strength("Overhead Press", 4, 120),
            Strength("Incline Dumbbell Press", 3, 90),
            Strength("Lateral Raises", 3, 60), Strength("Tricep Dips", 3, 60),
            Strength("Push-ups", 3, 60) >>),
        Workout("Pull Day", 60, <<
            Strength("Deadlifts", 4, 180), Strength("Pull-ups/Chin-ups", 4, 120),
            Strength("Bent-over Rows", 4, 120), Strength("Lat Pulldowns", 3, 90),
            Strength("Bicep Curls", 3, 60), Strength("Face Pulls", 3, 60) >>),
        Workout("Legs Day", 60, <<
            Strength("Squats", 4, 180), Strength("Romanian Deadlifts", 4, 120),
            Strength("Leg Press", 3, 90), Strength("Walking Lunges", 3, 90),
            Strength("Calf Raises", 4, 60), Strength("Leg Curls", 3, 60) >>) >> ]

MaintenanceProgram ==
    [ title |-> "Maintenance Program", duration |-> 8,
      restDays |-> <<"Wednesday", "Sunday">>,
      workouts |-> <<
        Workout("Full Body Strength", 45, <<
            Strength("Squats", 3, 90), Strength("Push-ups", 3, 60),
            Strength("Bent-over Rows", 3, 90), Strength("Lunges", 3, 60),
            Strength("Plank", 3, 45), Strength("Shoulder Press", 3, 60) >>),
        Workout("Cardio Session", 30, <<
            Timed("Running/Jogging", 30, Undef), Timed("Cycling", 30, Undef),
            Timed("Swimming", 30, Undef) >>),
        Workout("Flexibility & Mobility", 20, <<
            Timed("Dynamic Warm-up", 5, Undef), Timed("Static Stretching", 10, Undef),
            Timed("Foam Rolling", 5, Undef) >>) >> ]

Goals == {"lose_fat", "gain_muscle", "maintain"}

\* the template of a recognised goal (the switch of getBaseWorkoutPlan)
getBaseWorkoutPlan(goal) ==
    CASE goal = "lose_fat" -> FatLossProgram
      [] goal = "gain_muscle" -> MuscleBuildingProgram
      [] goal = "maintain" -> MaintenanceProgram

\* array.slice(0, n)
Slice(seq, n) == SubSeq(seq, 1, IF Len(seq) < n THEN Len(seq) ELSE n)

\* the age adjustment of an exercise (lines 298-302)
ReduceIntensity(exercise) ==
    [ exercise EXCEPT
        !.sets = IF Truthy(exercise.sets)
                 THEN MathMax(Fin(2), Fin(exercise.sets.v - 1))
                 ELSE exercise.sets,
        !.rest = IF Truthy(exercise.rest)
                 THEN Fin(exercise.rest.v + 30)
                 ELSE exercise.rest ]

\* workouts.map(workout => ({...workout, exercises: exercises.map(...)}))
ReduceAll(workouts) ==
    [ w \in 1 .. Len(workouts) |->
        [ workouts[w] EXCEPT !.exercises =
            [e \in 1 .. Len(@) |-> ReduceIntensity(@[e])] ] ]

\* workouts.map(workout => ({...workout, exercises: exercises.slice(0, 4)}))
TruncateAll(workouts) ==
    [ w \in 1 .. Len(workouts) |->
        [workouts[w] EXCEPT !.exercises = Slice(@, 4)] ]

\* customizeWorkoutPlan with the age test off by one (age >= 50)
customizeWorkoutPlan_AgeFrom50(basePlan, profile) ==
    LET aged == IF profile.age >= 50 THEN ReduceAll(basePlan.workouts)
                ELSE basePlan.workouts
    IN  [ basePlan EXCEPT !.workouts =
            IF Truthy(profile.bodyFatPercentage)
               /\ NumGreater(profile.bodyFatPercentage, Fin(2500))
            THEN TruncateAll(aged) ELSE aged ]

\* customizeWorkoutPlan with the beginner test off by one (bodyFatPercentage >= 25)
customizeWorkoutPlan_BeginnerFrom25(basePlan, profile) ==
    LET aged == IF profile.age > 50 THEN ReduceAll(basePlan.workouts)
                ELSE basePlan.workouts
    IN  [ basePlan EXCEPT !.workouts =
            IF Truthy(profile.bodyFatPercentage)
               /\ ~NumLess(profile.bodyFatPercentage, Fin(2500))
            THEN TruncateAll(aged) ELSE aged ]

customizeWorkoutPlan(basePlan, profile) ==
    LET aged == IF profile.age > 50 THEN ReduceAll(basePlan.workouts)
                ELSE basePlan.workouts
    IN  [ basePlan EXCEPT !.workouts =
            IF Truthy(profile.bodyFatPercentage)
               /\ NumGreater(profile.bodyFatPercentage, Fin(2500))
            THEN TruncateAll(aged) ELSE aged ]

\* the default branch of getBaseWorkoutPlan throws before any customisation
generateWorkoutPlan(profile) ==
    IF profile.goal \notin Goals
    THEN Throw("Invalid goal specified")
    ELSE Return(customizeWorkoutPlan(getBaseWorkoutPlan(profile.goal), profile))

---------------------------------------------------------------------------
(* workoutPlans.ts: the nutrition plan.  Weight, height and age are whole   *)
(* numbers, so every intermediate value is an exact fraction: the BMR is    *)
(* kept in quarters of a kcal (6.25 = 25/4), the activity multipliers in    *)
(* fortieths (1.2 = 48/40 ... 1.9 = 76/40), the TDEE and the daily calories *)
(* in 1/160 kcal.                                                           *)

\* a variant using the female offset for both sexes
calculateBMR_SameOffset(profile) ==
    40 * profile.weight + 25 * profile.height - 20 * profile.age - 644

\* Mifflin-St Jeor, in quarters of a kcal
calculateBMR(profile) ==
    IF profile.sex = "male"
    THEN 40 * profile.weight + 25 * profile.height - 20 * profile.age + 20
    ELSE 40 * profile.weight + 25 * profile.height - 20 * profile.age - 644

ActivityLevels == {"sedentary", "light", "moderate", "active", "very_active"}

\* in fortieths
activityMultipliers ==
    [ sedentary |-> 48, light |-> 55, moderate |-> 62, active |-> 69,
      very_active |-> 76 ]

\* in 1/160 kcal
calculateTDEE(profile) ==
    calculateBMR(profile) * activityMultipliers[profile.activityLevel]

\* Math.round of the fraction n / d (d > 0): floor(n / d + 1/2)
MathRound(n, d) == (2 * n + d) \div (2 * d)

\* goal.replace('_', ' ').toUpperCase() on the three goals that reach it
UpperTitle(goal) ==
    CASE goal = "lose_fat" -> "LOSE FAT"
      [] goal = "gain_muscle" -> "GAIN MUSCLE"
      [] goal = "maintain" -> "MAINTAIN"

\* the object returned after the switch: dailyCalories in 1/160 kcal, protein
\* per kg in tenths of a gram, the carbohydrate and fat shares in hundredths
NutritionPlan(profile, dailyCalories, proteinPerKg, carbShare, fatShare) ==
    [ title |-> UpperTitle(profile.goal),
      dailyCalories |-> MathRound(dailyCalories, 160),
      macros |->
        [ protein |-> MathRound(profile.weight * proteinPerKg, 10),
          carbs   |-> MathRound(dailyCalories * carbShare, 160 * 100 * 4),
          fat     |-> MathRound(dailyCalories * fatShare, 160 * 100 * 9) ] ]

\* a variant whose switch has no throwing default branch
generateNutritionPlan_DefaultMaintain(profile) ==
    LET tdee == calculateTDEE(profile)
    IN  CASE profile.goal = "lose_fat" ->
               Return(NutritionPlan(profile, tdee - 500 * 160, 22, 35, 25))
          [] profile.goal = "gain_muscle" ->
               Return(NutritionPlan(profile, tdee + 300 * 160, 20, 45, 25))
          [] OTHER ->
               Return(NutritionPlan([profile EXCEPT !.goal = "maintain"],
                                    tdee, 16, 40, 30))

generateNutritionPlan(profile) ==
    LET tdee == calculateTDEE(profile)
    IN  CASE profile.goal = "lose_fat" ->
               Return(NutritionPlan(profile, tdee - 500 * 160, 22, 35, 25))
          [] profile.goal = "gain_muscle" ->
               Return(NutritionPlan(profile, tdee + 300 * 160, 20, 45, 25))
          [] profile.goal = "maintain" ->
               Return(NutritionPlan(profile, tdee, 16, 40, 30))
          [] OTHER -> Throw("Invalid goal specified")

---------------------------------------------------------------------------
(* dashboard/page.tsx: getWorkoutPlan *)

\* a line of text the page shows: the values a template string is built
\* from, or a literal text
WorkoutLine(name, duration) == [text |-> "", name |-> name, duration |-> duration]
LiteralLine(text) == [text |-> text, name |-> "", duration |-> 0]
NutritionLine(dailyCalories, protein) ==
    [text |-> "", dailyCalories |-> dailyCalories, protein |-> protein]
LiteralNutrition(text) == [text |-> text, dailyCalories |-> 0, protein |-> 0]

\* the inline plans of the catch block (lines 137-165)
FallbackPlans ==
    [ lose_fat |->
        [ title |-> "Fat Loss Program",
          workouts |-> << LiteralLine("Cardio: 30-45 min, 4x/week"),
                          LiteralLine("Strength: Full body, 3x/week"),
                          LiteralLine("HIIT: 20 min, 2x/week") >>,
          nutrition |-> LiteralNutrition("Caloric deficit: 300-500 kcal/day") ],
      gain_muscle |->
        [ title |-> "Muscle Building Program",
          workouts |-> << LiteralLine("Strength: Push/Pull/Legs, 6x/week"),
                          LiteralLine("Progressive overload focus"),
                          LiteralLine("Compound movements priority") >>,
          nutrition |-> LiteralNutrition("Caloric surplus: 200-400 kcal/day, 1.6-2.2g protein/kg") ],
      maintain |->
        [ title |-> "Maintenance Program",
          workouts |-> << LiteralLine("Strength: 3-4x/week"), LiteralLine("Cardio: 2-3x/week"),
                          LiteralLine("Flexibility: Daily") >>,
          nutrition |-> LiteralNutrition("Maintenance calories, balanced macros") ] ]

\* plans[profile.goal]: undefined for a key the literal does not have
FallbackPlan(goal) ==
    IF goal \in DOMAIN FallbackPlans THEN FallbackPlans[goal] ELSE Undef

\* the object built from the two generated plans (lines 129-133)
PlanSummary(workoutPlan, nutritionPlan) ==
    [ title |-> workoutPlan.title,
      workouts |-> [ i \in 1 .. Len(workoutPlan.workouts) |->
                       WorkoutLine(workoutPlan.workouts[i].name,
                                   workoutPlan.workouts[i].duration) ],
      nutrition |-> NutritionLine(nutritionPlan.dailyCalories,
                                  nutritionPlan.macros.protein) ]

\* what the promise of getWorkoutPlan(profile) settles to, for a profile that
\* is not null; importResolves tells whether the dynamic import succeeded.
\* Every exception of the try block ends in the catch block, which returns.
getWorkoutPlan(profile, importResolves) ==
    LET withActivity ==
            [ height |-> profile.height, weight |-> profile.weight,
              age |-> profile.age, sex |-> profile.sex, goal |-> profile.goal,
              activityLevel |-> "moderate", bodyFatPercentage |-> Undef ]
        workoutPlan == generateWorkoutPlan(withActivity)
        nutritionPlan == generateNutritionPlan(withActivity)
    IN  IF importResolves /\ workoutPlan.tag = "return"
           /\ nutritionPlan.tag = "return"
        THEN Return(PlanSummary(workoutPlan.value, nutritionPlan.value))
        ELSE Return(FallbackPlan(profile.goal))

---------------------------------------------------------------------------
(* validateEnv.ts.  A string is the sequence of its characters; a variable  *)
(* of process.env is unset or holds a string.                               *)

UpperLetters ==
    << "A", "B", "C", "D", "E", "F", "G", "H", "I", "J", "K", "L", "M", "N",
       "O", "P", "Q", "R", "S", "T", "U", "V", "W", "X", "Y", "Z" >>
LowerLetters ==
    << "a", "b", "c", "d", "e", "f", "g", "h", "i", "j", "k", "l", "m", "n",
       "o", "p", "q", "r", "s", "t", "u", "v", "w", "x", "y", "z" >>

\* String.prototype.toLowerCase
ToLowerCase(str) ==
    [ i \in 1 .. Len(str) |->
        IF \E j \in 1 .. 26 : UpperLetters[j] = str[i]
        THEN LowerLetters[CHOOSE j \in 1 .. 26 : UpperLetters[j] = str[i]]
        ELSE str[i] ]

WhiteSpace == {" ", "\t", "\n"}

RECURSIVE TrimStart(_)
TrimStart(str) ==
    IF str # <<>> /\ Head(str) \in WhiteSpace THEN TrimStart(Tail(str)) ELSE str

RECURSIVE TrimEnd(_)
TrimEnd(str) ==
    IF str # <<>> /\ str[Len(str)] \in WhiteSpace
    THEN TrimEnd(SubSeq(str, 1, Len(str) - 1)) ELSE str

\* String.prototype.trim
Trim(str) == TrimEnd(TrimStart(str))

\* String.prototype.startsWith
StartsWith(str, prefix) ==
    Len(prefix) <= Len(str) /\ SubSeq(str, 1, Len(prefix)) = prefix

\* String.prototype.includes
StringIncludes(str, part) ==
    \E i \in 0 .. Len(str) - Len(part) : SubSeq(str, i + 1, i + Len(part)) = part

Unset == [set |-> FALSE, chars |-> <<>>]
Value(str) == [set |-> TRUE, chars |-> str]

\* !val || val.trim() === "" (lines 56, 67, 77)
UnsetOrBlank(val) == ~val.set \/ val.chars = <<>> \/ Trim(val.chars) = <<>>

\* the placeholder substrings of lines 10, 15, 24, 31 and 36
PublishablePlaceholder ==
    << "p", "k", "_", "t", "e", "s", "t", "_", "y", "o", "u", "r", "_", "p",
       "u", "b", "l", "i", "s", "h", "a", "b", "l", "e", "_", "k", "e", "y",
       "_", "h", "e", "r", "e" >>
PublishablePlaceholderShort ==
    << "Y", "O", "U", "R", "_", "P", "U", "B", "L", "I", "S", "H", "A", "B",
       "L", "E", "_", "K", "E", "Y" >>
SecretPlaceholder ==
    << "s", "k", "_", "t", "e", "s", "t", "_", "y", "o", "u", "r", "_", "s",
       "e", "c", "r", "e", "t", "_", "k", "e", "y", "_", "h", "e", "r", "e" >>
SecretPlaceholderShort ==
    << "Y", "O", "U", "R", "_", "S", "E", "C", "R", "E", "T", "_", "K", "E",
       "Y" >>
DatabasePlaceholder ==
    << "p", "o", "s", "t", "g", "r", "e", "s", "q", "l", ":", "/", "/", "u",
       "s", "e", "r", "n", "a", "m", "e", ":", "p", "a", "s", "s", "w", "o",
       "r", "d", "@", "l", "o", "c", "a", "l", "h", "o", "s", "t", ":", "5",
       "4", "3", "2", "/", "f", "u", "t", "u", "r", "e", "f", "i", "t" >>
UrlPlaceholder ==
    << "h", "t", "t", "p", ":", "/", "/", "l", "o", "c", "a", "l", "h", "o",
       "s", "t", ":", "3", "0", "0", "0" >>
NextAuthSecretPlaceholder ==
    << "y", "o", "u", "r", "_", "n", "e", "x", "t", "a", "u", "t", "h", "_",
       "s", "e", "c", "r", "e", "t", "_", "h", "e", "r", "e" >>

REQUIRED_ENV_KEYS ==
    << [ name |-> "NEXT_PUBLIC_CLERK_PUBLISHABLE_KEY",
         placeholderSubstrings |->
            <<PublishablePlaceholder, PublishablePlaceholderShort>> ],
       [ name |-> "CLERK_SECRET_KEY",
         placeholderSubstrings |-> <<SecretPlaceholder, SecretPlaceholderShort>> ] >>

OPTIONAL_ENV_KEYS ==
    << [ name |-> "DATABASE_URL", placeholderSubstrings |-> <<DatabasePlaceholder>> ],
       [ name |-> "NEXTAUTH_URL", placeholderSubstrings |-> <<UrlPlaceholder>> ],
       [ name |-> "NEXTAUTH_SECRET",
         placeholderSubstrings |-> <<NextAuthSecretPlaceholder>> ] >>

\* isPlaceholder comparing the characters as they are
isPlaceholder_CaseSensitive(val, substrings) ==
    IF ~val.set \/ val.chars = <<>> \/ Len(substrings) = 0 THEN FALSE
    ELSE \E i \in 1 .. Len(substrings) : StringIncludes(val.chars, substrings[i])

isPlaceholder(val, substrings) ==
    IF ~val.set \/ val.chars = <<>> \/ Len(substrings) = 0 THEN FALSE
    ELSE LET lower == ToLowerCase(val.chars)
         IN  \E i \in 1 .. Len(substrings) :
                StringIncludes(lower, ToLowerCase(substrings[i]))

KeyNames(keys) == [ i \in 1 .. Len(keys) |-> keys[i].name ]

HttpsPrefix ==
    << "h", "t", "t", "p", "s", ":", "/", "/" >>
ProductionName ==
    << "p", "r", "o", "d", "u", "c", "t", "i", "o", "n" >>

\* env is process.env: a record of the six variables the function reads.
\* The result carries the three lists the message or the warnings are built
\* from; warned tells whether console.warn was called.
validateEnv(env) ==
    LET isProd == env.NODE_ENV = Value(ProductionName)
        missingRequired ==
            KeyNames(SelectSeq(REQUIRED_ENV_KEYS,
                               LAMBDA key : UnsetOrBlank(env[key.name])))
        placeholderKeys ==
            KeyNames(SelectSeq(REQUIRED_ENV_KEYS,
                LAMBDA key : /\ ~UnsetOrBlank(env[key.name])
                             /\ isPlaceholder(env[key.name],
                                              key.placeholderSubstrings)))
        optionalMissing ==
            KeyNames(SelectSeq(OPTIONAL_ENV_KEYS,
                               LAMBDA key : UnsetOrBlank(env[key.name])))
        nextAuthMissing ==
            SelectSeq(<<"NEXTAUTH_URL", "NEXTAUTH_SECRET">>,
                      LAMBDA key : UnsetOrBlank(env[key]))
        \* process.env.NEXTAUTH_URL || ""
        url == IF env.NEXTAUTH_URL.set THEN env.NEXTAUTH_URL.chars ELSE <<>>
        isHttps == StartsWith(url, HttpsPrefix)
        missing ==
            IF isProd THEN missingRequired \o nextAuthMissing ELSE missingRequired
        placeholders ==
            IF isProd /\ ~isHttps
            THEN Append(placeholderKeys, "NEXTAUTH_URL (must be https in production)")
            ELSE placeholderKeys
        lists == [ missing |-> missing, placeholders |-> placeholders,
                   optionalMissing |-> optionalMissing ]
    IN  IF missing = <<>> /\ placeholders = <<>> /\ optionalMissing = <<>>
        THEN [ tag |-> "return", value |-> Undef, error |-> "",
               lists |-> lists, warned |-> FALSE ]
        ELSE IF isProd
        THEN [ tag |-> "throw", value |-> Undef,
               error |-> "Env validation failed in production.",
               lists |-> lists, warned |-> FALSE ]
        ELSE [ tag |-> "return", value |-> Undef, error |-> "",
               lists |-> lists, warned |-> TRUE ]

---------------------------------------------------------------------------
(* The pure-function harness: one call of an exported function, on an input *)
(* drawn from the sets below                                               *)

\* coordinates 0, 1/CoordSteps, ..., 1 in hundredths
Coords == { (i * 100) \div CoordSteps : i \in 0 .. CoordSteps }

LandmarkInputs ==
    { [ leftShoulder  |-> Point(lsx, lsy),
        rightShoulder |-> Point(rsx, lsy),
        leftHip       |-> Point(lhx, 50),
        rightHip      |-> Point(rhx, 50),
        leftAnkle     |-> Point(lsx, lay),
        hip           |-> [present |-> hp, x |-> 50, y |-> 55] ] :
      lsx \in Coords, lsy \in Coords, rsx \in Coords, lhx \in Coords,
      rhx \in Coords, lay \in Coords, hp \in BOOLEAN }

UserHeights == {-5, 0, 100, 170, 250}
ImageWidths == {0, 1280}
ImageHeights == {0, 720}

\* circumferences in tenths of a centimetre
Lengths == {Fin(0), Fin(250), Fin(500), Fin(900), Fin(1200), NaN, PInf}

MeasurementInputs ==
    { [waist |-> w, neck |-> n, hip |-> h, height |-> Fin(ht), sex |-> s] :
      w \in Lengths, n \in Lengths, h \in Lengths \cup {Undef},
      ht \in UserHeights, s \in {"male", "female"} }

Sexes == {"male", "female"}
Randoms == {0, 25, 50, 75, 99}

ProfileInputs ==
    { [height |-> h, weight |-> 70, age |-> 30, sex |-> s] :
      h \in UserHeights \cup {1, 120, 150, 200}, s \in Sexes }

\* UserProfile values for the plan generator; bodyFatPercentage in hundredths
Ages == {10, 30, 50, 51, 55, 100}
BodyFats == {Undef, Fin(0), Fin(1800), Fin(2500), Fin(2501), Fin(4500)}

\* the goals a caller may pass: the switch compares with ===
GoalInputs == Goals \cup {"invalid", "", "LOSE_FAT"}

PlanProfileInputs ==
    { [ height |-> 170, weight |-> 70, age |-> a, sex |-> "male", goal |-> g,
        activityLevel |-> "moderate", bodyFatPercentage |-> bf ] :
      a \in Ages, g \in GoalInputs, bf \in BodyFats }

\* UserProfile values for the nutrition plan, at and inside the limits the
\* profile route enforces
NutritionProfileInputs ==
    { [ height |-> h, weight |-> w, age |-> a, sex |-> s, goal |-> g,
        activityLevel |-> l ] :
      h \in {100, 170, 250}, w \in {30, 70, 300}, a \in {10, 30, 100},
      s \in Sexes, g \in GoalInputs, l \in ActivityLevels }

CallCalculateCircumferences ==
    /\ fn = "none"
    /\ \E lm \in LandmarkInputs, h \in UserHeights,
          w \in ImageWidths, ih \in ImageHeights :
          /\ fn' = "calculateCircumferences"
          /\ arg' = [landmarks |-> lm, userHeight |-> h,
                     imageWidth |-> w, imageHeight |-> ih]
          /\ ret' = calculateCircumferences(lm, h, w, ih)
    /\ UNCHANGED <<scanVars, navVars, apiVars>>

CallCalculateBodyFatPercentage ==
    /\ fn = "none"
    /\ \E m \in MeasurementInputs :
          /\ fn' = "calculateBodyFatPercentage"
          /\ arg' = m
          /\ ret' = calculateBodyFatPercentage(m)
    /\ UNCHANGED <<scanVars, navVars, apiVars>>

CallProcessBodyComposition ==
    /\ fn = "none"
    /\ \E p \in ProfileInputs, r \in Randoms :
          /\ fn' = "processBodyComposition"
          /\ arg' = [userProfile |-> p, random |-> r]
          /\ ret' = processBodyComposition("front", "side", p, r)
    /\ UNCHANGED <<scanVars, navVars, apiVars>>

CallGenerateWorkoutPlan ==
    /\ fn = "none"
    /\ \E p \in PlanProfileInputs :
          /\ fn' = "generateWorkoutPlan"
          /\ arg' = p
          /\ ret' = generateWorkoutPlan(p)
    /\ UNCHANGED <<scanVars, navVars, apiVars>>

CallGenerateNutritionPlan ==
    /\ fn = "none"
    /\ \E p \in NutritionProfileInputs :
          /\ fn' = "generateNutritionPlan"
          /\ arg' = p
          /\ ret' = generateNutritionPlan(p)
    /\ UNCHANGED <<scanVars, navVars, apiVars>>

\* profiles as loadUserData passes them to getWorkoutPlan
DashboardProfileInputs ==
    { [ height |-> 170, weight |-> 70, age |-> a, sex |-> s, goal |-> g ] :
      a \in Ages, s \in Sexes, g \in GoalInputs }

\* const plan = await getWorkoutPlan(profile) (dashboard/page.tsx:60)
CallGetWorkoutPlan ==
    /\ fn = "none"
    /\ \E p \in DashboardProfileInputs, importResolves \in BOOLEAN :
          /\ fn' = "getWorkoutPlan"
          /\ arg' = [profile |-> p, importResolves |-> importResolves]
          /\ ret' = getWorkoutPlan(p, importResolves)
    /\ UNCHANGED <<scanVars, navVars, apiVars>>

\* values of the environment variables: unset, empty, blank, real, and
\* placeholders as they stand, in other case, or inside a longer value
NodeEnvValues ==
    { Unset, Value(ProductionName), Value(<<"d", "e", "v">>),
      Value(<<"P", "r", "o", "d", "u", "c", "t", "i", "o", "n">>) }
PublishableKeyValues ==
    { Unset, Value(<<>>), Value(<<" ", " ">>),
      Value(<<"p", "k", "_", "l", "i", "v", "e", "_", "1">>),
      Value(PublishablePlaceholder),
      Value(<<"x">> \o ToLowerCase(PublishablePlaceholderShort) \o <<"x">>) }
SecretKeyValues ==
    { Unset, Value(<<"\t">>), Value(<<"s", "k", "_", "l", "i", "v", "e", "_", "1">>),
      Value(SecretPlaceholderShort) }
DatabaseUrlValues ==
    { Unset, Value(<<"p", "g", ":", "/", "/", "d", "b">>), Value(DatabasePlaceholder) }
NextAuthUrlValues ==
    { Unset, Value(<<" ">>), Value(HttpsPrefix \o <<"a", ".", "i", "o">>),
      Value(UrlPlaceholder),
      Value(<<"H", "T", "T", "P", "S", ":", "/", "/", "a", ".", "i", "o">>),
      Value(<<" ">> \o HttpsPrefix \o <<"a", ".", "i", "o">>) }
NextAuthSecretValues == { Unset, Value(<<>>), Value(<<"s", "3", "c">>) }

EnvInputs ==
    [ NODE_ENV : NodeEnvValues,
      NEXT_PUBLIC_CLERK_PUBLISHABLE_KEY : PublishableKeyValues,
      CLERK_SECRET_KEY : SecretKeyValues,
      DATABASE_URL : DatabaseUrlValues,
      NEXTAUTH_URL : NextAuthUrlValues,
      NEXTAUTH_SECRET : NextAuthSecretValues ]

CallValidateEnv ==
    /\ fn = "none"
    /\ \E env \in EnvInputs :
          /\ fn' = "validateEnv"
          /\ arg' = env
          /\ ret' = validateEnv(env)
    /\ UNCHANGED <<scanVars, navVars, apiVars>>

---------------------------------------------------------------------------
(* scan/page.tsx: the scan flow.  A handler reads the state of the render   *)
(* it was created in; React re-renders between two events, so that is the   *)
(* state at the moment the event fires, and not what the handler has set.   *)

Images == {"imgA", "imgB"}

\* userProfile = null
NullProfile == [height |-> 0, weight |-> 0, age |-> 0, sex |-> "null"]

\* the default values of lines 58-63
DefaultProfile == [height |-> 170, weight |-> 70, age |-> 30, sex |-> "male"]

\* bodies GET /api/user-profile answers with; a height the route stored as
\* NaN arrives as JSON null, which the arithmetic reads as 0
ProfileBodies ==
    { [height |-> h, weight |-> 70, age |-> 30, sex |-> s] :
      h \in {0, 100, 180, 250}, s \in Sexes }

\* no value assigned to the result of line 70 yet
NoResult ==
    [ bodyFatPercentage |-> Undef, measurements |-> Undef, confidence |-> Undef ]

IdleProcess ==
    [ pc |-> "idle", frontPhoto |-> "null", sidePhoto |-> "null",
      userProfile |-> NullProfile, failure |-> "none", result |-> NoResult ]

FrontPhotoCaptured(imageData) ==
    /\ page = "/scan"
    /\ currentStep = "front"
    /\ frontPhoto' = imageData
    /\ currentStep' = "side"
    /\ UNCHANGED <<sidePhoto, isProcessing, bodyFatResult, pp, scans>>
    /\ UNCHANGED <<fnVars, apiVars>>

\* handleFrontPhotoCapture called with any image
handleFrontPhotoCapture ==
    /\ \E imageData \in Images : FrontPhotoCaptured(imageData)
    /\ UNCHANGED navVars

\* onCancel of the side step (line 137)
SideCancel ==
    /\ page = "/scan"
    /\ currentStep = "side"
    /\ currentStep' = "front"
    /\ UNCHANGED <<frontPhoto, sidePhoto, isProcessing, bodyFatResult, pp, scans>>
    /\ UNCHANGED <<fnVars, navVars, apiVars>>

\* handleSidePhotoCapture, and processPhotos up to its first await: the
\* processPhotos it calls belongs to the same render, so its frontPhoto and
\* sidePhoto are the values from before setSidePhoto
SidePhotoCaptured(imageData) ==
    /\ page = "/scan"
    /\ currentStep = "side"
    /\ scans < MaxScans
    /\ sidePhoto' = imageData
    /\ currentStep' = "processing"
    /\ isProcessing' = TRUE
    /\ pp' = [ pc |-> "fetch", frontPhoto |-> frontPhoto, sidePhoto |-> sidePhoto,
               userProfile |-> NullProfile, failure |-> "none",
               result |-> NoResult ]
    /\ scans' = scans + 1
    /\ UNCHANGED <<frontPhoto, bodyFatResult>>
    /\ UNCHANGED <<fnVars, apiVars>>

\* handleSidePhotoCapture called with any image
handleSidePhotoCapture ==
    /\ \E imageData \in Images : SidePhotoCaptured(imageData)
    /\ UNCHANGED navVars

\* the catch block with the step left unset
CatchFallback_NoStep(stage) ==
    /\ \E random \in Randoms : bodyFatResult' = Fin(random * 10 + 1500)
    /\ isProcessing' = FALSE
    /\ pp' = [pp EXCEPT !.pc = "done", !.failure = stage]
    /\ UNCHANGED <<currentStep, frontPhoto, sidePhoto, scans>>
    /\ UNCHANGED <<fnVars, navVars, apiVars>>

\* the catch and finally blocks of processPhotos (lines 74-82);
\* Math.random() * 10 + 15 in hundredths
CatchFallback(stage) ==
    /\ \E random \in Randoms : bodyFatResult' = Fin(random * 10 + 1500)
    /\ currentStep' = "results"
    /\ isProcessing' = FALSE
    /\ pp' = [pp EXCEPT !.pc = "done", !.failure = stage]
    /\ UNCHANGED <<frontPhoto, sidePhoto, scans>>
    /\ UNCHANGED <<fnVars, navVars, apiVars>>

\* The steps of processPhotos act while ScanPage is mounted: after
\* router.push('/dashboard') the page's state is gone and its setters do
\* nothing, so the steps are taken on page "/scan" only.

\* await fetch(...) resolves, with response.ok or not (line 49-52)
ProfileFetchResolves ==
    /\ page = "/scan"
    /\ pp.pc = "fetch"
    /\ \E ok \in BOOLEAN :
          pp' = IF ok THEN [pp EXCEPT !.pc = "json"]
                ELSE [pp EXCEPT !.pc = "import", !.userProfile = DefaultProfile]
    /\ UNCHANGED <<currentStep, frontPhoto, sidePhoto, isProcessing, bodyFatResult, scans>>
    /\ UNCHANGED <<fnVars, navVars, apiVars>>

ProfileFetchRejects ==
    /\ page = "/scan"
    /\ pp.pc = "fetch"
    /\ CatchFallback("fetch")

\* await profileResponse.json() resolves with null or a profile (lines 53-64)
ProfileJsonResolves ==
    /\ page = "/scan"
    /\ pp.pc = "json"
    /\ \E body \in ProfileBodies \cup {NullProfile} :
          pp' = [pp EXCEPT !.pc = "import",
                           !.userProfile = IF body = NullProfile
                                           THEN DefaultProfile ELSE body]
    /\ UNCHANGED <<currentStep, frontPhoto, sidePhoto, isProcessing, bodyFatResult, scans>>
    /\ UNCHANGED <<fnVars, navVars, apiVars>>

ProfileJsonRejects ==
    /\ page = "/scan"
    /\ pp.pc = "json"
    /\ CatchFallback("json")

\* await import(...) resolves and processBodyComposition is invoked (lines 67-70)
ImportResolves ==
    /\ page = "/scan"
    /\ pp.pc = "import"
    /\ pp' = [pp EXCEPT !.pc = "compute"]
    /\ UNCHANGED <<currentStep, frontPhoto, sidePhoto, isProcessing, bodyFatResult, scans>>
    /\ UNCHANGED <<fnVars, navVars, apiVars>>

ImportRejects ==
    /\ page = "/scan"
    /\ pp.pc = "import"
    /\ CatchFallback("import")

\* the promise of processBodyComposition(frontPhoto!, sidePhoto!, userProfile)
Estimate(random) ==
    processBodyComposition(pp.frontPhoto, pp.sidePhoto, pp.userProfile, random)

\* EstimationResolves without setBodyFatResult
EstimationResolves_StepOnly ==
    /\ page = "/scan"
    /\ pp.pc = "compute"
    /\ \E random \in Randoms : Estimate(random).tag = "return"
    /\ pp' = [pp EXCEPT !.pc = "done"]
    /\ currentStep' = "results"
    /\ isProcessing' = FALSE
    /\ UNCHANGED <<frontPhoto, sidePhoto, bodyFatResult, scans>>
    /\ UNCHANGED <<fnVars, navVars, apiVars>>

\* await processBodyComposition(...) resolves (lines 70-73, 80-82)
EstimationResolves ==
    /\ page = "/scan"
    /\ pp.pc = "compute"
    /\ \E random \in Randoms :
          /\ Estimate(random).tag = "return"
          /\ bodyFatResult' = Estimate(random).bodyFatPercentage
          /\ pp' = [pp EXCEPT
                     !.pc = "done",
                     !.result =
                        [ bodyFatPercentage |-> Estimate(random).bodyFatPercentage,
                          measurements |-> Estimate(random).measurements,
                          confidence |-> Estimate(random).confidence ]]
    /\ currentStep' = "results"
    /\ isProcessing' = FALSE
    /\ UNCHANGED <<frontPhoto, sidePhoto, scans>>
    /\ UNCHANGED <<fnVars, navVars, apiVars>>

EstimationRejects ==
    /\ page = "/scan"
    /\ pp.pc = "compute"
    /\ \E random \in Randoms : Estimate(random).tag = "throw"
    /\ CatchFallback("processBodyComposition")

RetakePhotos ==
    /\ page = "/scan"
    /\ currentStep = "results"
    /\ currentStep' = "front"
    /\ frontPhoto' = "null"
    /\ sidePhoto' = "null"
    /\ bodyFatResult' = Undef
    /\ UNCHANGED <<isProcessing, pp, scans>>
    /\ UNCHANGED <<fnVars, apiVars>>

\* handleRetake with the capture component left out
handleRetake ==
    /\ RetakePhotos
    /\ UNCHANGED navVars

---------------------------------------------------------------------------
(* part_001: the two API routes.  A request body is a JSON object; a field  *)
(* is a JSON value, modelled as a record [t, n, c, s]:                      *)
(*   t = "num"    a number n (tenths for height, weight and age; hundredths *)
(*                of a percentage point for bodyFatPercentage; milliseconds *)
(*                for a timestamp)                                          *)
(*   t = "str"    a string whose characters the code inspects, c being the  *)
(*                sequence of its characters                                *)
(*   t = "text"   a string s the code only compares                         *)
(*   t = "iso"    an ISO 8601 date-time string for the instant n            *)
(*   t = "null"   null;  t = "undef"  the field is absent                   *)

Num(n) == [t |-> "num", n |-> n, c |-> <<>>, s |-> ""]
Str(chars) == [t |-> "str", n |-> 0, c |-> chars, s |-> ""]
Text(string) == [t |-> "text", n |-> 0, c |-> <<>>, s |-> string]
Iso(instant) == [t |-> "iso", n |-> instant, c |-> <<>>, s |-> ""]
Null == [t |-> "null", n |-> 0, c |-> <<>>, s |-> ""]
Missing == [t |-> "undef", n |-> 0, c |-> <<>>, s |-> ""]

\* !v
Falsy(v) ==
    \/ v.t \in {"undef", "null"}
    \/ v.t = "num" /\ v.n = 0
    \/ v.t = "str" /\ v.c = <<>>
    \/ v.t = "text" /\ v.s = ""

DecimalDigits == <<"0", "1", "2", "3", "4", "5", "6", "7", "8", "9">>

IsDigit(ch) == \E i \in 1 .. 10 : DecimalDigits[i] = ch
DigitValue(ch) == (CHOOSE i \in 1 .. 10 : DecimalDigits[i] = ch) - 1

RECURSIVE DigitRunLen(_)
\* the length of the longest prefix of chars made of digits
DigitRunLen(chars) ==
    IF chars = <<>> \/ ~IsDigit(Head(chars)) THEN 0
    ELSE 1 + DigitRunLen(Tail(chars))

RECURSIVE DigitsValue(_, _)
\* the number a sequence of digits denotes
DigitsValue(chars, acc) ==
    IF chars = <<>> THEN acc
    ELSE DigitsValue(Tail(chars), 10 * acc + DigitValue(Head(chars)))

RECURSIVE Pow10(_)
Pow10(k) == IF k = 0 THEN 1 ELSE 10 * Pow10(k - 1)

SignOf(chars) == IF chars # <<>> /\ Head(chars) = "-" THEN -1 ELSE 1
Unsigned(chars) ==
    IF chars # <<>> /\ Head(chars) \in {"-", "+"} THEN Tail(chars) ELSE chars

\* parseInt(string): an optional sign and the longest run of digits after it;
\* what follows the digits is ignored, no digit at all gives NaN
ParseIntString(chars) ==
    LET u == Unsigned(chars)
        k == DigitRunLen(u)
    IN  IF k = 0 THEN NaN
        ELSE Fin(SignOf(chars) * DigitsValue(SubSeq(u, 1, k), 0))

\* the conversion of a string to a number that < and > apply: the whole
\* string must be a numeric literal (sign, digits, optional exponent without
\* sign); the empty string is 0, anything else NaN
StringToNumber(chars) ==
    LET u == Unsigned(chars)
        k == DigitRunLen(u)
        rest == SubSeq(u, k + 1, Len(u))
        mantissa == SignOf(chars) * DigitsValue(SubSeq(u, 1, k), 0)
    IN  IF chars = <<>> THEN Fin(0)
        ELSE IF k = 0 THEN NaN
        ELSE IF rest = <<>> THEN Fin(mantissa)
        ELSE IF /\ Head(rest) = "e"
                /\ Len(rest) > 1
                /\ DigitRunLen(Tail(rest)) = Len(rest) - 1
             THEN Fin(mantissa * Pow10(DigitsValue(Tail(rest), 0)))
        ELSE NaN

\* parseFloat(string): the longest prefix that is a numeric literal
ParseFloatString(chars) ==
    LET u == Unsigned(chars)
        k == DigitRunLen(u)
        rest == SubSeq(u, k + 1, Len(u))
        mantissa == SignOf(chars) * DigitsValue(SubSeq(u, 1, k), 0)
        e == IF rest # <<>> /\ Head(rest) = "e" THEN DigitRunLen(Tail(rest)) ELSE 0
    IN  IF k = 0 THEN NaN
        ELSE IF e = 0 THEN Fin(mantissa)
        ELSE Fin(mantissa * Pow10(DigitsValue(SubSeq(rest, 2, e + 1), 0)))

\* the number a profile field compares as, in tenths
ToNumber(v) ==
    CASE v.t = "num" -> Fin(v.n)
      [] v.t = "null" -> Fin(0)
      [] v.t = "str" ->
            LET x == StringToNumber(v.c) IN IF IsFin(x) THEN Fin(10 * x.v) ELSE x
      [] OTHER -> NaN

\* a < b and a > b on numbers: false when either side is NaN
JsLess(a, b) == NumGreater(b, a)
JsGreater(a, b) == NumGreater(a, b)

\* parseInt(v) in whole units: a number is converted to its decimal string
\* first, so its fraction is dropped
ParseInt(v) ==
    CASE v.t = "num" ->
            IF v.n >= 0 THEN Fin(v.n \div 10) ELSE Fin(-((-v.n) \div 10))
      [] v.t = "str" -> ParseIntString(v.c)
      [] OTHER -> NaN

\* parseFloat(v) in hundredths; a string counts whole units
ParseFloat(v) ==
    CASE v.t = "num" -> Fin(v.n)
      [] v.t = "str" ->
            LET x == ParseFloatString(v.c) IN IF IsFin(x) THEN Fin(100 * x.v) ELSE x
      [] OTHER -> NaN

\* new Date(v).getTime(): NaN for an invalid date
DateOf(v) ==
    CASE v.t \in {"iso", "num"} -> Fin(v.n)
      [] v.t = "null" -> Fin(0)
      [] OTHER -> NaN

\* auth() without a session
NoUser == "null"

\* NextResponse.json(data, {status}) and the module state the handler leaves
Response(status, error, data, store) ==
    [status |-> status, error |-> error, data |-> data, store |-> store]

NoData == <<>>

\* ---- /api/user-profile ----

\* mockUserProfiles.findIndex(profile => profile.userId === userId), from 1;
\* 0 when there is none
FindIndex(store, userId) ==
    IF \E i \in 1 .. Len(store) : store[i].userId = userId
    THEN CHOOSE i \in 1 .. Len(store) :
            /\ store[i].userId = userId
            /\ \A j \in 1 .. i - 1 : store[j].userId # userId
    ELSE 0

userProfileGET(userId, userIdParam, store) ==
    IF userId = NoUser THEN Response(401, "Unauthorized", NoData, store)
    ELSE IF userIdParam # userId THEN Response(403, "Forbidden", NoData, store)
    ELSE LET i == FindIndex(store, userId)
         IN  IF i = 0 THEN Response(200, "", NoData, store)
             ELSE Response(200, "", <<store[i]>>, store)

\* the range tests of lines 53-61, bounds in tenths
OutOfRange(v, lo, hi) ==
    JsLess(ToNumber(v), Fin(lo)) \/ JsGreater(ToNumber(v), Fin(hi))

\* [...].includes(v)
Includes(strings, v) == v.t = "text" /\ v.s \in strings

\* the text of a string value that passed includes()
TextOf(v) == v.s

\* userProfilePOST with an update that stamps createdAt anew
userProfilePOST_NewCreatedAt(userId, body, store, time) ==
    IF userId = NoUser THEN Response(401, "Unauthorized", NoData, store)
    ELSE IF body.kind # "object"
    THEN Response(500, "Internal server error", NoData, store)
    ELSE IF \/ Falsy(body.height) \/ Falsy(body.weight) \/ Falsy(body.age)
            \/ Falsy(body.sex) \/ Falsy(body.goal)
    THEN Response(400, "Missing required fields", NoData, store)
    ELSE IF OutOfRange(body.height, 1000, 2500)
    THEN Response(400, "Invalid height", NoData, store)
    ELSE IF OutOfRange(body.weight, 300, 3000)
    THEN Response(400, "Invalid weight", NoData, store)
    ELSE IF OutOfRange(body.age, 100, 1000)
    THEN Response(400, "Invalid age", NoData, store)
    ELSE IF ~Includes({"male", "female"}, body.sex)
    THEN Response(400, "Invalid sex", NoData, store)
    ELSE IF ~Includes({"lose_fat", "gain_muscle", "maintain"}, body.goal)
    THEN Response(400, "Invalid goal", NoData, store)
    ELSE
      LET existingProfileIndex == FindIndex(store, userId)
          profileData ==
            [ userId |-> userId, height |-> ParseInt(body.height),
              weight |-> ParseInt(body.weight), age |-> ParseInt(body.age),
              sex |-> TextOf(body.sex), goal |-> TextOf(body.goal),
              updatedAt |-> Iso(time) ]
          Stored(createdAt) ==
            [ userId |-> profileData.userId, height |-> profileData.height,
              weight |-> profileData.weight, age |-> profileData.age,
              sex |-> profileData.sex, goal |-> profileData.goal,
              updatedAt |-> profileData.updatedAt, createdAt |-> createdAt ]
      IN  IF existingProfileIndex > 0
          THEN Response(200, "", <<profileData>>,
                 [store EXCEPT ![existingProfileIndex] =
                    Stored(Iso(time))])
          ELSE Response(200, "", <<profileData>>,
                 Append(store, Stored(Iso(time))))

\* time is the value of the clock when the handler runs
userProfilePOST(userId, body, store, time) ==
    IF userId = NoUser THEN Response(401, "Unauthorized", NoData, store)
    ELSE IF body.kind # "object"
    THEN Response(500, "Internal server error", NoData, store)
    ELSE IF \/ Falsy(body.height) \/ Falsy(body.weight) \/ Falsy(body.age)
            \/ Falsy(body.sex) \/ Falsy(body.goal)
    THEN Response(400, "Missing required fields", NoData, store)
    ELSE IF OutOfRange(body.height, 1000, 2500)
    THEN Response(400, "Invalid height", NoData, store)
    ELSE IF OutOfRange(body.weight, 300, 3000)
    THEN Response(400, "Invalid weight", NoData, store)
    ELSE IF OutOfRange(body.age, 100, 1000)
    THEN Response(400, "Invalid age", NoData, store)
    ELSE IF ~Includes({"male", "female"}, body.sex)
    THEN Response(400, "Invalid sex", NoData, store)
    ELSE IF ~Includes({"lose_fat", "gain_muscle", "maintain"}, body.goal)
    THEN Response(400, "Invalid goal", NoData, store)
    ELSE
      LET existingProfileIndex == FindIndex(store, userId)
          profileData ==
            [ userId |-> userId, height |-> ParseInt(body.height),
              weight |-> ParseInt(body.weight), age |-> ParseInt(body.age),
              sex |-> TextOf(body.sex), goal |-> TextOf(body.goal),
              updatedAt |-> Iso(time) ]
          \* {...existing, ...profileData}: only createdAt survives
          Stored(createdAt) ==
            [ userId |-> profileData.userId, height |-> profileData.height,
              weight |-> profileData.weight, age |-> profileData.age,
              sex |-> profileData.sex, goal |-> profileData.goal,
              updatedAt |-> profileData.updatedAt, createdAt |-> createdAt ]
      IN  IF existingProfileIndex > 0
          THEN Response(200, "", <<profileData>>,
                 [store EXCEPT ![existingProfileIndex] =
                    Stored(store[existingProfileIndex].createdAt)])
          ELSE Response(200, "", <<profileData>>,
                 Append(store, Stored(Iso(time))))

\* ---- /api/scan-results ----

\* array.filter(result => result.userId === userId)
FilterByUser(store, userId) == SelectSeq(store, LAMBDA r : r.userId = userId)

RECURSIVE InsertByTimestamp(_, _)
\* r placed after every entry whose timestamp is not earlier than its own
InsertByTimestamp(r, sorted) ==
    IF sorted = <<>> THEN <<r>>
    ELSE IF DateOf(Head(sorted).timestamp).v >= DateOf(r.timestamp).v
    THEN <<Head(sorted)>> \o InsertByTimestamp(r, Tail(sorted))
    ELSE <<r>> \o sorted

RECURSIVE SortByTimestampDesc(_)
\* array.sort((a, b) => new Date(b.timestamp) - new Date(a.timestamp)): a stable
\* sort, latest timestamp first
SortByTimestampDesc(results) ==
    IF results = <<>> THEN <<>>
    ELSE InsertByTimestamp(results[Len(results)],
                           SortByTimestampDesc(SubSeq(results, 1, Len(results) - 1)))

\* a variant answering in store order
scanResultsGET_Unsorted(userId, userIdParam, store) ==
    IF userId = NoUser THEN Response(401, "Unauthorized", NoData, store)
    ELSE IF userIdParam # userId THEN Response(403, "Forbidden", NoData, store)
    ELSE Response(200, "", FilterByUser(store, userId), store)

\* a variant without the test of the userId query parameter
scanResultsGET_NoOwnerCheck(userId, userIdParam, store) ==
    IF userId = NoUser THEN Response(401, "Unauthorized", NoData, store)
    ELSE Response(200, "", SortByTimestampDesc(FilterByUser(store, userIdParam)), store)

scanResultsGET(userId, userIdParam, store) ==
    IF userId = NoUser THEN Response(401, "Unauthorized", NoData, store)
    ELSE IF userIdParam # userId THEN Response(403, "Forbidden", NoData, store)
    ELSE Response(200, "", SortByTimestampDesc(FilterByUser(store, userId)), store)

\* `scan_${Date.now()}_${Math.random().toString(36).substr(2, 9)}`: the text is
\* determined by, and determines, the clock value and the random suffix
ScanId(time, suffix) == [time |-> time, suffix |-> suffix]

\* suffix is what Math.random().toString(36).substr(2, 9) gives
scanResultsPOST(userId, body, store, time, suffix) ==
    IF userId = NoUser THEN Response(401, "Unauthorized", NoData, store)
    ELSE IF body.kind # "object"
    THEN Response(500, "Internal server error", NoData, store)
    ELSE IF Falsy(body.bodyFatPercentage) \/ Falsy(body.timestamp)
    THEN Response(400, "Missing required fields", NoData, store)
    \* new Date(timestamp).toISOString() throws a RangeError on an invalid date
    ELSE IF ~IsFin(DateOf(body.timestamp))
    THEN Response(500, "Internal server error", NoData, store)
    ELSE
      LET newResult ==
            [ id |-> ScanId(time, suffix),
              userId |-> userId,
              bodyFatPercentage |-> ParseFloat(body.bodyFatPercentage),
              frontPhoto |-> body.frontPhoto,
              sidePhoto |-> body.sidePhoto,
              timestamp |-> Iso(DateOf(body.timestamp).v),
              createdAt |-> Iso(time) ]
      IN  Response(201, "", <<newResult>>, Append(store, newResult))

\* ---- requests ----

Users == {"user_1", "user_2"}
Callers == Users \cup {NoUser}

\* the userId query parameter; NoUser stands for a request without it
QueryParams == Users \cup {NoUser}

ProfileBody(userId, height, weight, age, sex, goal) ==
    [ kind |-> "object", userId |-> userId, height |-> height,
      weight |-> weight, age |-> age, sex |-> sex, goal |-> goal ]

BaseProfileBody ==
    ProfileBody("user_1", Num(1700), Num(700), Num(300), Text("male"),
                Text("maintain"))

\* a body that is not a JSON object: destructuring it throws
MalformedProfileBody ==
    [ kind |-> "null", userId |-> NoUser, height |-> Missing,
      weight |-> Missing, age |-> Missing, sex |-> Missing, goal |-> Missing ]

HeightValues ==
    { Missing, Null, Num(0), Num(995), Num(1000), Num(1705), Num(2500),
      Num(2505), Str(<<>>), Str(<<"1", "7", "0">>), Str(<<"a", "b", "c">>),
      Str(<<"-", "5", "a", "b", "c">>), Str(<<"1", "e", "2">>) }
WeightValues ==
    { Missing, Num(0), Num(295), Num(300), Num(3000), Num(3005),
      Str(<<"a", "b", "c">>) }
AgeValues ==
    { Missing, Num(0), Num(95), Num(100), Num(1000), Num(1005),
      Str(<<"a", "b", "c">>) }
SexValues ==
    { Missing, Null, Text(""), Text("male"), Text("female"), Text("other"),
      Num(10) }
GoalValues ==
    { Missing, Text(""), Text("lose_fat"), Text("gain_muscle"),
      Text("maintain"), Text("invalid") }

\* the base body with one field replaced, two bodies with two faults, and a
\* body that is no object
ProfileRequests ==
    { [BaseProfileBody EXCEPT !.height = v] : v \in HeightValues }
    \cup { [BaseProfileBody EXCEPT !.weight = v] : v \in WeightValues }
    \cup { [BaseProfileBody EXCEPT !.age = v] : v \in AgeValues }
    \cup { [BaseProfileBody EXCEPT !.sex = v] : v \in SexValues }
    \cup { [BaseProfileBody EXCEPT !.goal = v] : v \in GoalValues }
    \cup { [BaseProfileBody EXCEPT !.height = Num(995), !.goal = Text("invalid")],
           [BaseProfileBody EXCEPT !.weight = Num(0), !.age = Num(1005)],
           MalformedProfileBody }

\* bodies naming either user, one of them rejected
FewProfileRequests ==
    { [BaseProfileBody EXCEPT !.userId = u, !.height = h] :
      u \in Users, h \in {Num(0), Num(1700)} }

\* bodies that are accepted, with two heights as numbers and one as a
\* string, and a body that is rejected
StoreProfileRequests ==
    { [BaseProfileBody EXCEPT !.height = h] :
      h \in {Num(0), Num(1700), Num(1800), Str(<<"1", "9", "0">>)} }

ScanBody(userId, bodyFatPercentage, front, side, timestamp) ==
    [ kind |-> "object", userId |-> userId,
      bodyFatPercentage |-> bodyFatPercentage, frontPhoto |-> front,
      sidePhoto |-> side, timestamp |-> timestamp ]

MalformedScanBody ==
    [ScanBody(NoUser, Missing, Missing, Missing, Missing) EXCEPT !.kind = "null"]

ScanRequests ==
    { ScanBody("user_1", bf, Text("imgA"), Text("imgB"), ts) :
      bf \in {Missing, Num(0), Num(1850)},
      ts \in {Missing, Iso(1), Iso(2), Text("not a date")} }
    \cup {MalformedScanBody}

FewScanRequests ==
    { ScanBody(u, bf, Text("imgA"), Text("imgB"), Iso(1)) :
      u \in Users, bf \in {Num(0), Num(1850), Str(<<"1", "8">>)} }

\* values of Math.random().toString(36).substr(2, 9)
IdSuffixes == {"4fzyo82mv", "k1x9q0c3d"}

NoRequest ==
    [route |-> "none", auth |-> NoUser, userIdParam |-> NoUser, body |-> <<>>]
NoResponse == [status |-> 0, error |-> "", data |-> NoData]

\* ---- the handlers as actions ----

PostUserProfile(callers, bodies) ==
    /\ \E userId \in callers, body \in bodies :
          LET out == userProfilePOST(userId, body, mockUserProfiles, now)
          IN  /\ req' = [ route |-> "POST /api/user-profile", auth |-> userId,
                          userIdParam |-> NoUser, body |-> body ]
              /\ res' = [ status |-> out.status, error |-> out.error,
                          data |-> out.data ]
              /\ mockUserProfiles' = out.store
    /\ UNCHANGED <<mockScanResults, now>>
    /\ UNCHANGED <<fnVars, scanVars, navVars>>

GetUserProfile(callers) ==
    /\ \E userId \in callers, userIdParam \in QueryParams :
          LET out == userProfileGET(userId, userIdParam, mockUserProfiles)
          IN  /\ req' = [ route |-> "GET /api/user-profile", auth |-> userId,
                          userIdParam |-> userIdParam, body |-> <<>> ]
              /\ res' = [ status |-> out.status, error |-> out.error,
                          data |-> out.data ]
    /\ UNCHANGED <<mockUserProfiles, mockScanResults, now>>
    /\ UNCHANGED <<fnVars, scanVars, navVars>>

PostScanResults(callers, bodies, suffixes) ==
    /\ Len(mockScanResults) < MaxStored
    /\ \E userId \in callers, body \in bodies, suffix \in suffixes :
          LET out == scanResultsPOST(userId, body, mockScanResults, now, suffix)
          IN  /\ req' = [ route |-> "POST /api/scan-results", auth |-> userId,
                          userIdParam |-> NoUser, body |-> body ]
              /\ res' = [ status |-> out.status, error |-> out.error,
                          data |-> out.data ]
              /\ mockScanResults' = out.store
    /\ UNCHANGED <<mockUserProfiles, now>>
    /\ UNCHANGED <<fnVars, scanVars, navVars>>

GetScanResults(callers) ==
    /\ \E userId \in callers, userIdParam \in QueryParams :
          LET out == scanResultsGET(userId, userIdParam, mockScanResults)
          IN  /\ req' = [ route |-> "GET /api/scan-results", auth |-> userId,
                          userIdParam |-> userIdParam, body |-> <<>> ]
              /\ res' = [ status |-> out.status, error |-> out.error,
                          data |-> out.data ]
    /\ UNCHANGED <<mockUserProfiles, mockScanResults, now>>
    /\ UNCHANGED <<fnVars, scanVars, navVars>>

\* a millisecond passes
Tick ==
    /\ now < MaxClock
    /\ now' = now + 1
    /\ UNCHANGED <<mockUserProfiles, mockScanResults, req, res>>
    /\ UNCHANGED <<fnVars, scanVars, navVars>>

\* ---- scan/page.tsx: handleSaveResults, and the dashboard it leads to ----

\* user.id of the signed-in user of the pages
PageUser == "user_1"

\* JSON.stringify of a number and of a photo (a data URL or null)
JsonNumber(a) == IF IsFin(a) THEN Num(a.v) ELSE Null
JsonPhoto(photo) == IF photo = "null" THEN Null ELSE Text(photo)

NoSave ==
    [ pc |-> "idle", count |-> 0, status |-> 0,
      body |-> ScanBody(NoUser, Missing, Missing, Missing, Missing) ]

\* handleSaveResults up to its await (lines 92-108); clock is what new
\* Date() reads in the browser.  One request is in flight at a time: a
\* second click waits for the first to settle.
handleSaveResults ==
    /\ page = "/scan"
    /\ currentStep = "results"
    /\ saving.pc \in {"idle", "done"}
    /\ saving.count < MaxSaves
    /\ \E clock \in 0 .. MaxClock :
          saving' =
            IF Truthy(bodyFatResult)
            THEN [ pc |-> "fetch", count |-> saving.count + 1, status |-> 0,
                   body |-> ScanBody(PageUser, JsonNumber(bodyFatResult),
                                     JsonPhoto(frontPhoto), JsonPhoto(sidePhoto),
                                     Iso(clock)) ]
            ELSE [saving EXCEPT !.pc = "done", !.count = @ + 1]
    /\ UNCHANGED <<page, dash, camera>>
    /\ UNCHANGED <<fnVars, scanVars, apiVars>>

\* useState<any>(null) (dashboard/page.tsx:34)
NoPlan == [k |-> "null", v |-> 0]

\* isLoaded and user are what useUser() gives the page (line 30)
Unmounted ==
    [ pc |-> "unmounted", scanResults |-> <<>>, userProfile |-> NoData,
      workoutPlan |-> NoPlan, isLoading |-> TRUE, isLoaded |-> FALSE,
      user |-> NoUser ]

\* the state DashboardPage mounts with when the scan page opens it (lines
\* 30-35): the user of that page is signed in, and the effect starts
\* loadUserData at once
Mounted ==
    [ pc |-> "results", scanResults |-> <<>>, userProfile |-> NoData,
      workoutPlan |-> NoPlan, isLoading |-> TRUE, isLoaded |-> TRUE,
      user |-> PageUser ]

\* await fetch(...) resolves: the route has served the request, with the
\* page user's session or without one, and router.push('/dashboard') runs if
\* response.ok (lines 97-112)
SaveFetchResolves ==
    /\ saving.pc = "fetch"
    /\ \E userId \in {PageUser, NoUser}, suffix \in IdSuffixes :
          LET out == scanResultsPOST(userId, saving.body, mockScanResults,
                                     now, suffix)
          IN  /\ mockScanResults' = out.store
              /\ saving' = [saving EXCEPT !.pc = "done", !.status = out.status]
              /\ IF out.status \in 200 .. 299
                 THEN page' = "/dashboard" /\ dash' = Mounted
                 ELSE UNCHANGED <<page, dash>>
    /\ UNCHANGED <<camera, mockUserProfiles, now, req, res>>
    /\ UNCHANGED <<fnVars, scanVars>>

\* await fetch(...) rejects: the catch block logs (lines 113-115)
SaveFetchRejects ==
    /\ saving.pc = "fetch"
    /\ saving' = [saving EXCEPT !.pc = "done"]
    /\ UNCHANGED <<page, dash, camera>>
    /\ UNCHANGED <<fnVars, scanVars, apiVars>>

\* ---- dashboard/page.tsx: loadUserData ----

\* a number of a stored profile as the plan arithmetic reads it: NaN is sent
\* as JSON null, which counts as 0
PlanNumber(a) == IF IsFin(a) THEN a.v ELSE 0

\* the first fetch and setScanResults (lines 46-50)
DashLoadResults ==
    /\ page = "/dashboard"
    /\ dash.pc = "results"
    /\ \E userId \in {PageUser, NoUser} :
          LET out == scanResultsGET(userId, dash.user, mockScanResults)
          IN  dash' = [dash EXCEPT
                         !.pc = "profile",
                         !.scanResults =
                            IF out.status \in 200 .. 299 THEN out.data ELSE @]
    /\ UNCHANGED <<saving, page, camera>>
    /\ UNCHANGED apiVars
    /\ UNCHANGED <<fnVars, scanVars>>

\* the second fetch, setUserProfile, getWorkoutPlan and setWorkoutPlan, and
\* the finally block (lines 53-68)
DashLoadProfile ==
    /\ page = "/dashboard"
    /\ dash.pc = "profile"
    /\ \E userId \in {PageUser, NoUser}, importResolves \in BOOLEAN :
          LET out == userProfileGET(userId, dash.user, mockUserProfiles)
              ok == out.status \in 200 .. 299
              profile == out.data
          IN  dash' = [dash EXCEPT
                            !.pc = "done",
                            !.isLoading = FALSE,
                            !.userProfile = IF ok THEN profile ELSE @,
                            !.workoutPlan =
                               IF ok /\ profile # NoData
                               THEN getWorkoutPlan(
                                      [ height |-> PlanNumber(profile[1].height),
                                        weight |-> PlanNumber(profile[1].weight),
                                        age |-> PlanNumber(profile[1].age),
                                        sex |-> profile[1].sex,
                                        goal |-> profile[1].goal ],
                                      importResolves).value
                               ELSE @]
    /\ UNCHANGED <<saving, page, camera>>
    /\ UNCHANGED apiVars
    /\ UNCHANGED <<fnVars, scanVars>>

\* a fetch or response.json() of loadUserData rejects: the catch block logs,
\* the finally block ends the loading state (lines 64-68)
DashLoadFails ==
    /\ page = "/dashboard"
    /\ dash.pc \in {"results", "profile"}
    /\ dash' = [dash EXCEPT !.pc = "done", !.isLoading = FALSE]
    /\ UNCHANGED <<saving, page, camera>>
    /\ UNCHANGED <<fnVars, scanVars, apiVars>>

---------------------------------------------------------------------------
(* CameraCapture.tsx.  The scan page renders one CameraCapture for the step  *)
(* 'front' and one for the step 'side' at the same place of its tree, so     *)
(* React keeps one component instance, with its state and refs, across the   *)
(* two steps (scan/page.tsx:121-139).                                        *)
(*   streams        the MediaStreams getUserMedia has given, each "live" or  *)
(*                  "stopped"; streamRef is an index into it, 0 for null     *)
(*   pending        the startCamera calls waiting for getUserMedia           *)
(*   capturedStep   the step during which the frame of capturedImage was     *)
(*                  taken                                                    *)

\* the state after the first render: the initializer of the useState call of
\* lines 87-92 has called startCamera, and what it returned is kept as a
\* state value that nothing calls
FirstRender ==
    [ mounted |-> TRUE, isStreaming |-> FALSE, capturedImage |-> "null",
      capturedStep |-> "none", error |-> FALSE, streamRef |-> 0, pending |-> 1,
      streams |-> <<>> ]

\* the scan page renders a CameraCapture (scan/page.tsx:121-139)
CameraShown == page = "/scan" /\ currentStep \in {"front", "side"}

\* the video element is rendered, so videoRef.current is set (lines 111-120)
VideoRendered == camera.mounted /\ camera.capturedImage = "null"

\* React mounts a CameraCapture where none was: the first render again, with
\* the streams and the pending calls of earlier instances still there
CameraMounted(cam) ==
    [FirstRender EXCEPT !.streams = cam.streams, !.pending = cam.pending + 1]

\* React unmounts it: state and refs are dropped; the function the
\* initializer of lines 87-92 returned is not an effect cleanup, so
\* stopCamera is not called
CameraUnmounted(cam) ==
    [cam EXCEPT !.mounted = FALSE, !.isStreaming = FALSE,
                !.capturedImage = "null", !.capturedStep = "none",
                !.error = FALSE, !.streamRef = 0]

\* await getUserMedia(...) resolves with a new stream (lines 26-38)
GetUserMediaResolves ==
    /\ camera.pending > 0
    /\ Len(camera.streams) < MaxStreams
    /\ camera' =
         IF VideoRendered
         THEN [camera EXCEPT !.pending = @ - 1,
                             !.streams = Append(@, "live"),
                             !.streamRef = Len(camera.streams) + 1,
                             !.isStreaming = TRUE]
         ELSE [camera EXCEPT !.pending = @ - 1, !.streams = Append(@, "live")]
    /\ UNCHANGED <<saving, page, dash>>
    /\ UNCHANGED <<fnVars, scanVars, apiVars>>

\* await getUserMedia(...) rejects (lines 39-42)
GetUserMediaRejects ==
    /\ camera.pending > 0
    /\ camera' = [camera EXCEPT !.pending = @ - 1, !.error = camera.mounted]
    /\ UNCHANGED <<saving, page, dash>>
    /\ UNCHANGED <<fnVars, scanVars, apiVars>>

\* the Start Camera button (lines 121-127): startCamera up to its await
startCamera ==
    /\ CameraShown
    /\ VideoRendered
    /\ ~camera.isStreaming
    /\ camera.pending < MaxPending
    /\ camera' = [camera EXCEPT !.error = FALSE, !.pending = @ + 1]
    /\ UNCHANGED <<saving, page, dash>>
    /\ UNCHANGED <<fnVars, scanVars, apiVars>>

\* streamRef.current.getTracks().forEach(track => track.stop()) (lines 46-49)
StopTracks(streams, streamRef) ==
    IF streamRef = 0 THEN streams ELSE [streams EXCEPT ![streamRef] = "stopped"]

\* the Capture Photo button (lines 142-147): capturePhoto and stopCamera
capturePhoto ==
    /\ CameraShown
    /\ VideoRendered
    /\ camera.isStreaming
    /\ \E imageData \in Images :
          camera' = [camera EXCEPT
                       !.capturedImage = imageData,
                       !.capturedStep = currentStep,
                       !.streams = StopTracks(@, camera.streamRef),
                       !.streamRef = 0,
                       !.isStreaming = FALSE]
    /\ UNCHANGED <<saving, page, dash>>
    /\ UNCHANGED <<fnVars, scanVars, apiVars>>

\* the Retake button (lines 159-162): retakePhoto, startCamera up to its await
retakePhoto ==
    /\ CameraShown
    /\ camera.mounted
    /\ camera.capturedImage # "null"
    /\ camera.pending < MaxPending
    /\ camera' = [camera EXCEPT !.capturedImage = "null", !.capturedStep = "none",
                                !.error = FALSE, !.pending = @ + 1]
    /\ UNCHANGED <<saving, page, dash>>
    /\ UNCHANGED <<fnVars, scanVars, apiVars>>

\* the Use This Photo button (lines 155-158): confirmPhoto calls onCapture,
\* the handler of the current step.  After the front photo the page renders
\* the CameraCapture of the side step in the place of the one of the front
\* step, and React keeps the instance; after the side photo it renders the
\* processing card, and the instance is unmounted.
confirmPhoto ==
    /\ camera.mounted
    /\ camera.capturedImage # "null"
    /\ \/ FrontPhotoCaptured(camera.capturedImage) /\ UNCHANGED camera
       \/ /\ SidePhotoCaptured(camera.capturedImage)
          /\ camera' = CameraUnmounted(camera)
    /\ UNCHANGED <<saving, page, dash>>

\* onCancel of the front step: router.push('/') (scan/page.tsx:127); the
\* scan page and its CameraCapture are unmounted
FrontCancel ==
    /\ page = "/scan"
    /\ currentStep = "front"
    /\ camera.mounted
    /\ camera.capturedImage = "null"
    /\ page' = "/"
    /\ camera' = CameraUnmounted(camera)
    /\ UNCHANGED <<saving, dash>>
    /\ UNCHANGED <<fnVars, scanVars, apiVars>>

\* onCancel of the side step, pressed on the Cancel button (lines 128-130 and
\* 148-150), which is shown while no photo is captured
CameraSideCancel ==
    /\ camera.mounted
    /\ camera.capturedImage = "null"
    /\ SideCancel

\* handleRetake: the page renders the front step, a new CameraCapture mounts
CameraRetake ==
    /\ RetakePhotos
    /\ camera.pending < MaxPending
    /\ camera' = CameraMounted(camera)
    /\ UNCHANGED <<saving, page, dash>>

\* the dashboard is opened by its address: the page mounts before Clerk has
\* loaded (lines 30-35)
OpenDashboard ==
    /\ page # "/dashboard"
    /\ page' = "/dashboard"
    /\ dash' = [Mounted EXCEPT !.pc = "auth", !.isLoaded = FALSE,
                               !.user = NoUser]
    /\ UNCHANGED <<saving, camera>>
    /\ UNCHANGED <<fnVars, scanVars, apiVars>>

\* Clerk has loaded, with a signed-in user or none; the effect of lines
\* 37-41 runs again and calls loadUserData only if there is a user
ClerkLoads ==
    /\ page = "/dashboard"
    /\ dash.pc = "auth"
    /\ \E user \in {PageUser, NoUser} :
          dash' = [dash EXCEPT !.isLoaded = TRUE, !.user = user,
                               !.pc = IF user # NoUser THEN "results" ELSE "idle"]
    /\ UNCHANGED <<saving, page, camera>>
    /\ UNCHANGED <<fnVars, scanVars, apiVars>>

\* the user signs out elsewhere and useUser() gives the page no user; the
\* effect runs again and calls nothing, a running loadUserData goes on
SessionEnds ==
    /\ page = "/dashboard"
    /\ dash.isLoaded
    /\ dash.user # NoUser
    /\ dash' = [dash EXCEPT !.user = NoUser]
    /\ UNCHANGED <<saving, page, camera>>
    /\ UNCHANGED <<fnVars, scanVars, apiVars>>

\* a render that passes the loading test of line 71 and finds no user:
\* router.push('/') (lines 82-85)
DashRedirects ==
    /\ page = "/dashboard"
    /\ ~(~dash.isLoaded \/ dash.isLoading)
    /\ dash.user = NoUser
    /\ page' = "/"
    /\ UNCHANGED <<saving, dash, camera>>
    /\ UNCHANGED <<fnVars, scanVars, apiVars>>

---------------------------------------------------------------------------

Init ==
    /\ fn = "none"
    /\ arg = <<>>
    /\ ret = <<>>
    /\ currentStep = "front"
    /\ frontPhoto = "null"
    /\ sidePhoto = "null"
    /\ isProcessing = FALSE
    /\ bodyFatResult = Undef
    /\ pp = IdleProcess
    /\ scans = 0
    /\ saving = NoSave
    /\ page = "/scan"
    /\ dash = Unmounted
    /\ camera = FirstRender
    /\ mockUserProfiles = <<>>
    /\ mockScanResults = <<>>
    /\ now = 0
    /\ req = NoRequest
    /\ res = NoResponse

NextFn ==
    \/ CallCalculateCircumferences
    \/ CallCalculateBodyFatPercentage
    \/ CallProcessBodyComposition
    \/ CallGenerateWorkoutPlan
    \/ CallGenerateNutritionPlan
    \/ CallGetWorkoutPlan
    \/ CallValidateEnv

SpecFn == Init /\ [][NextFn]_vars

NextScan ==
    \/ handleFrontPhotoCapture
    \/ SideCancel
    \/ handleSidePhotoCapture
    \/ ProfileFetchResolves
    \/ ProfileFetchRejects
    \/ ProfileJsonResolves
    \/ ProfileJsonRejects
    \/ ImportResolves
    \/ ImportRejects
    \/ EstimationResolves
    \/ EstimationRejects
    \/ handleRetake

SpecScan == Init /\ [][NextScan]_vars

\* one of the first three awaits of processPhotos settles (lines 49, 53, 67)
AwaitSettles ==
    \/ ProfileFetchResolves
    \/ ProfileFetchRejects
    \/ ProfileJsonResolves
    \/ ProfileJsonRejects
    \/ ImportResolves
    \/ ImportRejects

\* the promise of processBodyComposition settles (line 70).  One of
\* EstimationResolves and EstimationRejects is enabled exactly while pp.pc is
\* "compute" and either leaves it, so their weak fairness is this formula.
EstimationSettles == []<>(pp.pc # "compute")

\* the scan page, every await of processPhotos settling in the end; what the
\* user does is left open
SpecScanFair == SpecScan /\ WF_vars(AwaitSettles) /\ EstimationSettles

\* the scan page with its Save Results button, and the dashboard it opens
NextSave ==
    \/ handleFrontPhotoCapture
    \/ SideCancel
    \/ handleSidePhotoCapture
    \/ ProfileFetchResolves
    \/ ProfileFetchRejects
    \/ ProfileJsonResolves
    \/ ProfileJsonRejects
    \/ ImportResolves
    \/ ImportRejects
    \/ EstimationResolves
    \/ EstimationRejects
    \/ handleRetake
    \/ handleSaveResults
    \/ SaveFetchResolves
    \/ SaveFetchRejects
    \/ DashLoadResults
    \/ DashLoadProfile
    \/ DashLoadFails

SpecSave == Init /\ [][NextSave]_vars

\* the dashboard opened by its address, while the page user posts a profile
\* and scan results
NextDash ==
    \/ OpenDashboard
    \/ ClerkLoads
    \/ SessionEnds
    \/ DashRedirects
    \/ DashLoadResults
    \/ DashLoadProfile
    \/ DashLoadFails
    \/ PostUserProfile({PageUser}, FewProfileRequests)
    \/ PostScanResults({PageUser}, FewScanRequests, {"4fzyo82mv"})

SpecDash == Init /\ [][NextDash]_vars

\* the scan page with its capture component: the photos the handlers get are
\* those the component holds
NextCamera ==
    \/ GetUserMediaResolves
    \/ GetUserMediaRejects
    \/ startCamera
    \/ capturePhoto
    \/ retakePhoto
    \/ confirmPhoto
    \/ FrontCancel
    \/ CameraSideCancel
    \/ ProfileFetchResolves
    \/ ProfileFetchRejects
    \/ ProfileJsonResolves
    \/ ProfileJsonRejects
    \/ ImportResolves
    \/ ImportRejects
    \/ EstimationResolves
    \/ EstimationRejects
    \/ CameraRetake

SpecCamera == Init /\ [][NextCamera]_vars

\* the fetches of loadUserData settle: one of DashLoadResults,
\* DashLoadProfile and DashLoadFails is enabled exactly while loadUserData
\* waits, so their weak fairness is this formula
LoadSettles == []<>(dash.pc \notin {"results", "profile"})

\* Clerk loads in the end, a render that is due happens, and the fetches
\* settle
SpecDashFair ==
    SpecDash /\ WF_vars(ClerkLoads) /\ WF_vars(DashRedirects) /\ LoadSettles

\* the profile route, called by one signed-in user or without a session
NextProfile ==
    \/ PostUserProfile({"user_1", NoUser}, ProfileRequests)
    \/ GetUserProfile({"user_1", NoUser})
    \/ Tick

SpecProfile == Init /\ [][NextProfile]_vars

\* the scan-results route, called by any caller
NextScanStore ==
    \/ PostScanResults(Callers, ScanRequests, IdSuffixes)
    \/ GetScanResults(Callers)
    \/ Tick

SpecScanStore == Init /\ [][NextScanStore]_vars

\* both routes, called by any caller with bodies that name either user
NextApi ==
    \/ PostUserProfile(Callers, FewProfileRequests)
    \/ GetUserProfile(Callers)
    \/ PostScanResults(Callers, FewScanRequests, {"4fzyo82mv"})
    \/ GetScanResults(Callers)

SpecApi == Init /\ [][NextApi]_vars

\* the profile route, called by two users in any order while the clock
\* advances.  The handler awaits only request.json(); what follows reads and
\* writes the store without another await, so requests that overlap in time
\* take effect one after the other, in the order their bodies arrive.
NextProfileStore ==
    \/ PostUserProfile(Callers, StoreProfileRequests)
    \/ GetUserProfile(Callers)
    \/ Tick

SpecProfileStore == Init /\ [][NextProfileStore]_vars

---------------------------------------------------------------------------
(* Claims about bodyFatCalculator.ts, checked under SpecFn *)

CalledBodyFat == fn = "calculateBodyFatPercentage"
CalledCircumferences == fn = "calculateCircumferences"
CalledProcess == fn = "processBodyComposition"

\* a finite number between lo and hi
InRange(a, lo, hi) == IsFin(a) /\ lo <= a.v /\ a.v <= hi

\* C1: whenever the logarithm argument is a number <= 0 (waist - neck for male,
\* waist + hip - neck for female), calculateBodyFatPercentage fails and
\* returns neither NaN nor any number (stated for a positive height).
C1_NonPositiveArgumentFails ==
    (/\ CalledBodyFat
     /\ NumGreater(arg.height, Fin(0))
     /\ IsFin(LogArgument(arg))
     /\ LogArgument(arg).v <= 0)
        => ret.tag = "throw"

\* C2: male with waist > neck returns a value in [3, 50]; female with hip
\* present and waist + hip > neck returns a value in [8, 50]; height > 0.
C2_ResultInClampRange ==
    (CalledBodyFat /\ NumGreater(arg.height, Fin(0)))
        => /\ (arg.sex = "male" /\ NumGreater(arg.waist, arg.neck))
                => (ret.tag = "return" /\ InRange(ret.value, 300, 5000))
           /\ (/\ arg.sex = "female"
               /\ arg.hip # Undef
               /\ NumGreater(NumAdd(arg.waist, arg.hip), arg.neck))
                => (ret.tag = "return" /\ InRange(ret.value, 800, 5000))

\* C3: female without a hip measurement fails with the missing-hip error and
\* returns no value; male never fails, whether hip is given or not.
C3_MissingHip ==
    CalledBodyFat
        => /\ (arg.sex = "female" /\ arg.hip = Undef)
                => /\ ret.tag = "throw"
                   /\ ret.error = "Hip measurement required for female body fat calculation"
                   /\ ret.value = Undef
           /\ arg.sex = "male" => ret.tag = "return"

C3_Witness ==
    /\ CalledBodyFat
    /\ arg.sex = "female"
    /\ arg.hip = Undef
    /\ NumGreater(arg.waist, arg.neck)
    /\ ret.tag = "throw"

\* C4: for every input (stated for a positive height and image size) the
\* returned waist is >= 50 and the returned neck is >= 25, a shoulder-to-ankle
\* vertical span of 0 included.
C4_CircumferenceFloors ==
    (/\ CalledCircumferences
     /\ arg.userHeight > 0 /\ arg.imageWidth > 0 /\ arg.imageHeight > 0)
        => /\ ~IsNaN(ret.waist) /\ ~NumLess(ret.waist, Fin(500))
           /\ ~IsNaN(ret.neck) /\ ~NumLess(ret.neck, Fin(250))

\* the measurements calculateBodyFatPercentage receives from the estimator's
\* output for a profile of the given sex
EstimatorOutput(sex) ==
    [ waist |-> ret.waist, neck |-> ret.neck, hip |-> ret.hip,
      height |-> Fin(arg.userHeight), sex |-> sex ]

\* C5: for landmarks with all coordinates in [0,1] (a positive height, image
\* size and vertical span), the estimator's output gives the calculator a
\* positive logarithm argument, and the calculator does not return NaN.
C5_FloorsKeepLogDomain ==
    (/\ CalledCircumferences
     /\ arg.userHeight > 0 /\ arg.imageWidth > 0 /\ arg.imageHeight > 0
     /\ arg.landmarks.leftAnkle.y # arg.landmarks.leftShoulder.y)
        => \A sex \in Sexes :
              (sex = "female" => arg.landmarks.hip.present)
                => /\ NumGreater(LogArgument(EstimatorOutput(sex)), Fin(0))
                   /\ ~IsNaN(calculateBodyFatPercentage(EstimatorOutput(sex)).value)

\* C6: every successful return of processBodyComposition has
\* bodyFatPercentage in [5, 45].
C6_FinalClamp ==
    (CalledProcess /\ ret.tag = "return")
        => InRange(ret.bodyFatPercentage, 500, 4500)

---------------------------------------------------------------------------
(* Claims about the workout plan generator, checked under SpecFn *)

CalledWorkoutPlan == fn = "generateWorkoutPlan" /\ arg.goal \in Goals

Template == getBaseWorkoutPlan(arg.goal)

\* the exercises returned, as <<workout index, exercise index>>
ReturnedExercises ==
    UNION { { <<w, e>> : e \in 1 .. Len(ret.value.workouts[w].exercises) } :
            w \in 1 .. Len(ret.value.workouts) }

Larger(a, b) == IF a < b THEN b ELSE a
Smaller(a, b) == IF a < b THEN a ELSE b

\* C9: for age > 50 every returned exercise has sets = max(2, template sets - 1)
\* where the template defines sets and rest = template rest + 30 where it
\* defines rest; for age <= 50 sets and rest are the template's.  At age 55
\* with goal maintain every sets value is exactly one lower.
C9_AgeAdjustment ==
    CalledWorkoutPlan
        => /\ ret.tag = "return"
           /\ \A we \in ReturnedExercises :
                LET t == Template.workouts[we[1]].exercises[we[2]]
                    r == ret.value.workouts[we[1]].exercises[we[2]]
                IN  /\ arg.age > 50
                        => /\ t.sets # Undef => r.sets = Fin(Larger(2, t.sets.v - 1))
                           /\ t.sets = Undef => r.sets = Undef
                           /\ t.rest # Undef => r.rest = Fin(t.rest.v + 30)
                           /\ t.rest = Undef => r.rest = Undef
                    /\ arg.age <= 50 => (r.sets = t.sets /\ r.rest = t.rest)
                    /\ (arg.age = 55 /\ arg.goal = "maintain" /\ t.sets # Undef)
                        => r.sets = Fin(t.sets.v - 1)

C9_Witness ==
    /\ CalledWorkoutPlan
    /\ arg.age = 55
    /\ arg.goal = "maintain"
    /\ ret.tag = "return"
    /\ ret.value.workouts[1].exercises[1].sets = Fin(2)
    /\ ret.value.workouts[1].exercises[1].rest = Fin(120)

\* C10: with bodyFatPercentage present and > 25 every workout has exactly the
\* first min(4, n) exercises of its template, in order; otherwise every
\* workout keeps all of them.  Number and order of workouts, title, duration
\* and restDays are the template's in all cases.
C10_BeginnerTruncation ==
    CalledWorkoutPlan
        => /\ ret.tag = "return"
           /\ ret.value.title = Template.title
           /\ ret.value.duration = Template.duration
           /\ ret.value.restDays = Template.restDays
           /\ Len(ret.value.workouts) = Len(Template.workouts)
           /\ \A w \in 1 .. Len(Template.workouts) :
                LET t == Template.workouts[w]
                    r == ret.value.workouts[w]
                    n == Len(t.exercises)
                IN  /\ r.name = t.name
                    /\ r.duration = t.duration
                    /\ Len(r.exercises) =
                         IF arg.bodyFatPercentage # Undef
                            /\ NumGreater(arg.bodyFatPercentage, Fin(2500))
                         THEN Smaller(4, n) ELSE n
                    /\ \A e \in 1 .. Len(r.exercises) :
                         /\ r.exercises[e].name = t.exercises[e].name
                         /\ r.exercises[e].duration = t.exercises[e].duration

C10_Witness ==
    /\ CalledWorkoutPlan
    /\ arg.bodyFatPercentage = Fin(2501)
    /\ arg.goal = "lose_fat"
    /\ ret.tag = "return"
    /\ Len(Template.workouts[1].exercises) = 6
    /\ Len(ret.value.workouts[1].exercises) = 4
    /\ Len(ret.value.workouts[3].exercises) = 3

---------------------------------------------------------------------------
(* Claims about the scan flow, checked under SpecScan *)

Awaiting == pp.pc \in {"fetch", "json", "import", "compute"}

\* C7: when an estimation-stage step fails (the profile fetch or its body
\* throws, the import fails, processBodyComposition throws), processPhotos
\* sets bodyFatResult to a value in [15, 25], moves currentStep to "results"
\* and ends processing.
C7_FailureFallsBack ==
    [][ (Awaiting /\ pp'.pc = "done" /\ pp'.failure # "none")
            => /\ InRange(bodyFatResult', 1500, 2500)
               /\ currentStep' = "results"
               /\ ~isProcessing' ]_vars

C7_Witness ==
    /\ pp.pc = "done"
    /\ pp.failure = "processBodyComposition"
    /\ currentStep = "results"
    /\ InRange(bodyFatResult, 1500, 2500)
    /\ ~isProcessing

\* C8: whenever processBodyComposition is invoked, its frontPhoto and
\* sidePhoto arguments are both captured images.
C8_BothPhotosCaptured ==
    pp.pc = "compute" => (pp.frontPhoto \in Images /\ pp.sidePhoto \in Images)

---------------------------------------------------------------------------
(* Claims about the two plan generators, checked under SpecFn *)

CalledPlan == fn \in {"generateWorkoutPlan", "generateNutritionPlan"}
CalledNutritionPlan == fn = "generateNutritionPlan"

\* C11: generateWorkoutPlan and generateNutritionPlan both fail with the
\* invalid-goal error, and return no plan, for every profile whose goal is
\* not lose_fat, gain_muscle or maintain; for each of these three goals
\* neither function fails.
C11_InvalidGoalFails ==
    CalledPlan =>
        IF arg.goal \in {"lose_fat", "gain_muscle", "maintain"}
        THEN ret.tag = "return"
        ELSE /\ ret.tag = "throw"
             /\ ret.error = "Invalid goal specified"
             /\ ret.value = Undef

C11_Witness ==
    /\ CalledNutritionPlan
    /\ arg.goal = "LOSE_FAT"
    /\ ret.tag = "throw"
    /\ ret.error = "Invalid goal specified"

\* r is the nearest integer to n / d (d > 0), halves rounding up
RoundsTo(r, n, d) == (2 * r - 1) * d <= 2 * n /\ 2 * n < (2 * r + 1) * d

\* the claim's table: calorie adjustment d (kcal), protein p (tenths of a
\* gram per kg), carbohydrate share c and fat share f (hundredths)
PlanTable ==
    [ lose_fat    |-> [d |-> -500, p |-> 22, c |-> 35, f |-> 25],
      gain_muscle |-> [d |->  300, p |-> 20, c |-> 45, f |-> 25],
      maintain    |-> [d |->    0, p |-> 16, c |-> 40, f |-> 30] ]

\* the claim's multipliers 1.2, 1.375, 1.55, 1.725, 1.9 in thousandths
ClaimedMultiplier ==
    [ sedentary |-> 1200, light |-> 1375, moderate |-> 1550, active |-> 1725,
      very_active |-> 1900 ]

\* BMR = 10 weight + 6.25 height - 5 age + 5 (male) or - 161, in hundredths
ClaimedBMR ==
    1000 * arg.weight + 625 * arg.height - 500 * arg.age
        + (IF arg.sex = "male" THEN 500 ELSE -16100)

\* TDEE + d in 1/160 kcal: the BMR is a whole number of quarters and every
\* multiplier a whole number of fortieths, so both divisions are exact
ClaimedCalories ==
    (ClaimedBMR \div 25) * (ClaimedMultiplier[arg.activityLevel] \div 25)
        + 160 * PlanTable[arg.goal].d

\* the four formulas of the claim
NutritionFormulas ==
    LET row == PlanTable[arg.goal]
        plan == ret.value
    IN  /\ ret.tag = "return"
        /\ RoundsTo(plan.dailyCalories, ClaimedCalories, 160)
        /\ RoundsTo(plan.macros.protein, row.p * arg.weight, 10)
        /\ RoundsTo(plan.macros.carbs, ClaimedCalories * row.c, 160 * 100 * 4)
        /\ RoundsTo(plan.macros.fat, ClaimedCalories * row.f, 160 * 100 * 9)

SpecExampleProfile ==
    /\ CalledNutritionPlan
    /\ arg.weight = 70 /\ arg.height = 170 /\ arg.age = 30
    /\ arg.sex = "male" /\ arg.activityLevel = "moderate"
    /\ arg.goal = "maintain"

\* C12 as stated: for every valid profile the plan follows the four formulas,
\* and for {70 kg, 170 cm, 30, male, moderate, maintain} dailyCalories is 2716
\* and protein 112.
C12_NutritionAsStated ==
    (CalledNutritionPlan /\ arg.goal \in Goals) =>
        /\ NutritionFormulas
        /\ SpecExampleProfile =>
             (ret.value.dailyCalories = 2716 /\ ret.value.macros.protein = 112)

\* C12, amended: for every valid profile the plan follows the four formulas,
\* and for {70 kg, 170 cm, 30, male, moderate, maintain} the BMR is 1617.5, the
\* TDEE 2507.125, dailyCalories 2507 and protein 112.
C12_NutritionFormulas ==
    (CalledNutritionPlan /\ arg.goal \in Goals) =>
        /\ NutritionFormulas
        /\ SpecExampleProfile =>
             /\ ClaimedBMR = 161750
             /\ ClaimedCalories = 401140
             /\ ret.value.dailyCalories = 2507
             /\ ret.value.macros.protein = 112

C12_Witness ==
    /\ SpecExampleProfile
    /\ ret.tag = "return"
    /\ ret.value.dailyCalories = 2507
    /\ ret.value.macros.protein = 112
    /\ ret.value.macros.carbs = 251
    /\ ret.value.macros.fat = 84

---------------------------------------------------------------------------
(* Claims about the user-profile route, checked under SpecProfile *)

ProfilePut ==
    /\ req.route = "POST /api/user-profile"
    /\ req.auth # NoUser
    /\ req.body.kind = "object"

\* v is a number from lo to hi (tenths), or a string that denotes one
WithinRange(v, lo, hi) ==
    /\ v.t \in {"num", "str"}
    /\ IsFin(ToNumber(v))
    /\ lo <= ToNumber(v).v
    /\ ToNumber(v).v <= hi

OneOf(v, strings) == v.t = "text" /\ v.s \in strings

ProfileFields == {"height", "weight", "age", "sex", "goal"}

\* the fields of the request body that violate their constraint
OffendingFields ==
    { f \in ProfileFields :
        CASE f = "height" -> ~WithinRange(req.body.height, 1000, 2500)
          [] f = "weight" -> ~WithinRange(req.body.weight, 300, 3000)
          [] f = "age" -> ~WithinRange(req.body.age, 100, 1000)
          [] f = "sex" -> ~OneOf(req.body.sex, {"male", "female"})
          [] f = "goal" ->
               ~OneOf(req.body.goal, {"lose_fat", "gain_muscle", "maintain"}) }

\* the error texts that name a field
NamesField(error, f) ==
    CASE f = "height" -> error = "Invalid height"
      [] f = "weight" -> error = "Invalid weight"
      [] f = "age" -> error = "Invalid age"
      [] f = "sex" -> error = "Invalid sex"
      [] f = "goal" -> error = "Invalid goal"

\* C13: a profile put in which height, weight, age, sex or goal violates its
\* constraint is rejected with a validation error that names an offending
\* field, whatever the violating value is (0 and a missing field included).
C13_ViolationNamesField ==
    (ProfilePut /\ OffendingFields # {}) =>
        /\ res.status = 400
        /\ \E f \in OffendingFields : NamesField(res.error, f)

---------------------------------------------------------------------------
(* Claims about the scan-results route, checked under SpecScanStore *)

Listed == req.route = "GET /api/scan-results" /\ res.status = 200

\* how many times r occurs in seq
Count(r, seq) == Cardinality({ i \in 1 .. Len(seq) : seq[i] = r })

Stored(userId) ==
    { mockScanResults[i] :
        i \in { j \in 1 .. Len(mockScanResults) :
                  mockScanResults[j].userId = userId } }

Instant(r) == r.timestamp.n

\* C15: listing a user's results returns exactly the results stored for that
\* user, each as often as it was appended, ordered most recent first
\* (non-increasing timestamp), so that index 0 is that user's latest scan.
C15_ListedMostRecentFirst ==
    Listed =>
        /\ \A i \in 1 .. Len(res.data) : res.data[i] \in Stored(req.auth)
        /\ \A r \in Stored(req.auth) :
              Count(r, res.data) = Count(r, mockScanResults)
        /\ \A i \in 1 .. Len(res.data) - 1 :
              Instant(res.data[i]) >= Instant(res.data[i + 1])
        /\ \A r \in Stored(req.auth) : Instant(res.data[1]) >= Instant(r)

\* the later scan was appended after the earlier one and is listed first
C15_Witness ==
    /\ Listed
    /\ Len(mockScanResults) = 2
    /\ Len(res.data) = 2
    /\ Instant(res.data[1]) > Instant(res.data[2])
    /\ res.data[1] = mockScanResults[2]
    /\ res.data[2] = mockScanResults[1]

\* C16: no two stored scan results share an id, also when several were
\* appended within the same millisecond.
C16_UniqueIds ==
    \A i, j \in 1 .. Len(mockScanResults) :
        i # j => mockScanResults[i].id # mockScanResults[j].id

---------------------------------------------------------------------------
(* Claims about both routes, checked under SpecApi *)

Gets == {"GET /api/user-profile", "GET /api/scan-results"}

\* the entries of store' that the step added or changed
Written(old, new) ==
    { i \in 1 .. Len(new) : i > Len(old) \/ new[i] # old[i] }

\* C19: a GET answers with data only to an authenticated caller whose userId
\* parameter is the caller's own id, and then only with that caller's
\* records; any other GET is answered 401 or 403 without data.  Every step
\* leaves the records of other users as they were, and every record it
\* writes carries the authenticated caller's id, whatever userId the request
\* body names.
C19_RoutesProtected ==
    [][ /\ (req'.route \in Gets /\ res'.status = 200) =>
              /\ req'.auth # NoUser
              /\ req'.userIdParam = req'.auth
              /\ \A i \in 1 .. Len(res'.data) : res'.data[i].userId = req'.auth
        /\ (req'.route \in Gets
              /\ (req'.auth = NoUser \/ req'.userIdParam # req'.auth)) =>
              /\ res'.status \in {401, 403}
              /\ res'.data = NoData
        /\ Len(mockScanResults') >= Len(mockScanResults)
        /\ Len(mockUserProfiles') >= Len(mockUserProfiles)
        /\ \A i \in Written(mockScanResults, mockScanResults') :
              /\ req'.auth # NoUser
              /\ mockScanResults'[i].userId = req'.auth
              /\ i > Len(mockScanResults)
        /\ \A i \in Written(mockUserProfiles, mockUserProfiles') :
              /\ req'.auth # NoUser
              /\ mockUserProfiles'[i].userId = req'.auth
              /\ i <= Len(mockUserProfiles) =>
                    mockUserProfiles[i].userId = req'.auth
      ]_vars

C19_Witness ==
    /\ req.route = "POST /api/scan-results"
    /\ req.auth = "user_2"
    /\ req.body.userId = "user_1"
    /\ res.status = 201
    /\ mockScanResults[Len(mockScanResults)].userId = "user_2"
    /\ \E i \in 1 .. Len(mockUserProfiles) : mockUserProfiles[i].userId = "user_1"


---------------------------------------------------------------------------
(* Saving a scan and listing it on the dashboard                             *)

\* the dashboard has listed the scan results of the page user
DashListed == page = "/dashboard" /\ dash.pc \in {"profile", "done"}

\* the save that opened the dashboard sent the estimate of the pipeline
SavedPipelineResult ==
    /\ saving.pc = "done"
    /\ saving.status = 201
    /\ pp.pc = "done"
    /\ pp.failure = "none"
    /\ saving.body.bodyFatPercentage = JsonNumber(pp.result.bodyFatPercentage)

\* entry carries the four fields of the pipeline's result, as they were saved
Intact(entry) ==
    /\ entry.bodyFatPercentage = pp.result.bodyFatPercentage
    /\ "measurements" \in DOMAIN entry
    /\ entry.measurements = pp.result.measurements
    /\ "confidence" \in DOMAIN entry
    /\ entry.confidence = pp.result.confidence
    /\ entry.timestamp = saving.body.timestamp

\* C14: once a result of the pipeline has been saved and the dashboard has
\* listed the user's scan results, the list holds an entry with the
\* bodyFatPercentage, measurements, confidence and timestamp of that result.
C14_RoundTripIntact ==
    DashListed /\ SavedPipelineResult /\ Len(dash.scanResults) > 0
        => \E i \in 1 .. Len(dash.scanResults) : Intact(dash.scanResults[i])

\* C18: no entry of the server's scan-result store holds photo data, whatever
\* was scanned, saved and retaken.
C18_NoPhotosStored ==
    \A i \in 1 .. Len(mockScanResults) :
        /\ mockScanResults[i].frontPhoto.t \in {"null", "undef"}
        /\ mockScanResults[i].sidePhoto.t \in {"null", "undef"}

---------------------------------------------------------------------------
(* Plan errors on the dashboard                                              *)

\* C17: for a goal outside the three recognised values getWorkoutPlan fails
\* with the error of the plan generator; it does not return a value for
\* loadUserData to store as the workout plan.
C17_PlanErrorPropagates ==
    fn = "getWorkoutPlan" /\ arg.profile.goal \notin Goals
        => ret.tag = "throw" /\ ret.error = "Invalid goal specified"


---------------------------------------------------------------------------
(* Claims about the profile store, checked under SpecProfileStore and        *)
(* SpecProfile                                                               *)

\* what GET /api/user-profile answers to userId asking for its own profile
OwnProfile(userId, store) == userProfileGET(userId, userId, store).data

ProfilesOf(userId, store) ==
    { i \in 1 .. Len(store) : store[i].userId = userId }

\* the step ends with a profile POST of userId answered 200
PostedBy(userId) ==
    /\ req'.route = "POST /api/user-profile"
    /\ req'.auth = userId
    /\ res'.status = 200

IntegerWithin(a, lo, hi) == IsFin(a) /\ a.v >= lo /\ a.v <= hi

\* C22: every stored profile has an integer height in [100,250], weight in
\* [30,300] and age in [10,100], a sex of male or female and one of the three
\* goals, whatever bodies were posted.
C22_StoredProfilesValid ==
    \A i \in 1 .. Len(mockUserProfiles) :
        /\ IntegerWithin(mockUserProfiles[i].height, 100, 250)
        /\ IntegerWithin(mockUserProfiles[i].weight, 30, 300)
        /\ IntegerWithin(mockUserProfiles[i].age, 10, 100)
        /\ mockUserProfiles[i].sex \in {"male", "female"}
        /\ mockUserProfiles[i].goal \in {"lose_fat", "gain_muscle", "maintain"}


---------------------------------------------------------------------------
(* Claims about the progress of the scan flow, checked under SpecScanFair    *)

\* C23: once the side photo is confirmed, the flow reaches the results step
\* with isProcessing false, whatever the profile fetch and the estimation end
\* in; and whenever the step is results, bodyFatResult is not null.
C23_ReachesResults ==
    /\ [](currentStep = "results" => bodyFatResult # Undef)
    /\ (currentStep = "processing") ~> (currentStep = "results" /\ ~isProcessing)

\* the results step reached through the catch block, with a value to show
C23_Witness ==
    /\ currentStep = "results"
    /\ ~isProcessing
    /\ pp.pc = "done"
    /\ pp.failure = "json"
    /\ bodyFatResult # Undef


---------------------------------------------------------------------------
(* Claims about validateEnv.ts, checked under SpecFn *)

InProduction == arg.NODE_ENV = Value(ProductionName)

\* val is unset or consists of white space only
Blank(val) ==
    ~val.set \/ \A i \in 1 .. Len(val.chars) : val.chars[i] \in WhiteSpace

\* the same character, or the two cases of one letter
SameLetter(a, b) ==
    a = b \/ \E j \in 1 .. 26 : {a, b} = {UpperLetters[j], LowerLetters[j]}

ContainsIgnoringCase(str, part) ==
    \E i \in 0 .. Len(str) - Len(part) :
        \A k \in 1 .. Len(part) : SameLetter(str[i + k], part[k])

\* the key is unset, blank or holds one of its placeholder substrings
Unusable(key) ==
    \/ Blank(arg[key.name])
    \/ \E i \in 1 .. Len(key.placeholderSubstrings) :
          ContainsIgnoringCase(arg[key.name].chars, key.placeholderSubstrings[i])

ClerkKeysUsable ==
    \A i \in 1 .. Len(REQUIRED_ENV_KEYS) : ~Unusable(REQUIRED_ENV_KEYS[i])

HttpsUrl == arg.NEXTAUTH_URL.set /\ StartsWith(arg.NEXTAUTH_URL.chars, HttpsPrefix)

\* C24: in production validateEnv throws whenever a Clerk key is unset, blank
\* or holds a placeholder substring in any case, whenever NEXTAUTH_URL or
\* NEXTAUTH_SECRET is unset or blank, and whenever NEXTAUTH_URL does not start
\* with https://; outside production it returns for every environment.
C24_FailsFastInProduction ==
    fn = "validateEnv" =>
        /\ ( /\ InProduction
             /\ \/ ~ClerkKeysUsable
                \/ Blank(arg.NEXTAUTH_URL)
                \/ Blank(arg.NEXTAUTH_SECRET)
                \/ ~HttpsUrl ) => ret.tag = "throw"
        /\ ~InProduction => ret.tag = "return"

\* production, everything set, the publishable key holding a placeholder in
\* lower case inside a longer value: the call fails for that key alone
C24_Witness ==
    /\ fn = "validateEnv"
    /\ InProduction
    /\ arg.NEXT_PUBLIC_CLERK_PUBLISHABLE_KEY =
          Value(<<"x">> \o ToLowerCase(PublishablePlaceholderShort) \o <<"x">>)
    /\ ret.tag = "throw"
    /\ ret.lists.missing = <<>>
    /\ ret.lists.optionalMissing = <<>>
    /\ ret.lists.placeholders = <<"NEXT_PUBLIC_CLERK_PUBLISHABLE_KEY">>

\* C25: in production, with both Clerk keys real, NEXTAUTH_SECRET set and
\* NEXTAUTH_URL an https URL, validateEnv returns when DATABASE_URL is unset.
C25_OptionalKeyMayBeUnset ==
    ( /\ fn = "validateEnv"
      /\ InProduction
      /\ ClerkKeysUsable
      /\ ~Blank(arg.NEXTAUTH_SECRET)
      /\ HttpsUrl
      /\ ~arg.DATABASE_URL.set ) => ret.tag = "return"


---------------------------------------------------------------------------
(* Claims about the dashboard page, checked under SpecDashFair *)

\* C26: when Clerk has loaded and no user is signed in, the dashboard
\* redirects to "/" in the end, and so does not stay on its loading spinner.
C26_SignedOutRedirects ==
    (page = "/dashboard" /\ dash.isLoaded /\ dash.user = NoUser) ~> (page = "/")


---------------------------------------------------------------------------
\* the streams whose tracks are running
LiveStreams ==
    { i \in 1..Len(camera.streams) : camera.streams[i] = "live" }

\* C27: CameraCapture releases every stream it acquires: at most one stream
\* has running tracks at any time, and once a photo is captured or the
\* component is cancelled or unmounted no stream has running tracks.
C27_StreamsReleased ==
    /\ Cardinality(LiveStreams) <= 1
    /\ (~camera.mounted \/ camera.capturedImage # "null") => LiveStreams = {}

\* C28: when the scan flow moves from the front step to the side step the
\* capture component holds no captured image, and every image handed to
\* handleSidePhotoCapture was captured during the side step.
C28_SideStartsEmpty ==
    [][ /\ (currentStep = "front" /\ currentStep' = "side")
           => camera'.capturedImage = "null"
        /\ (currentStep = "side" /\ currentStep' = "processing")
           => camera.capturedStep = "side" ]_vars


---------------------------------------------------------------------------
\* the nutrition plan was asked for a profile the profile route accepts,
\* with a goal the switch knows
AcceptedProfileCalled ==
    /\ CalledNutritionPlan
    /\ arg.height >= 100 /\ arg.height <= 250
    /\ arg.weight >= 30 /\ arg.weight <= 300
    /\ arg.age >= 10 /\ arg.age <= 100
    /\ arg.sex \in Sexes
    /\ arg.goal \in Goals

\* C29: for every profile the profile store accepts, every activity level
\* and every recognised goal, generateNutritionPlan returns a plan whose
\* dailyCalories, carbs, fat and protein are all greater than 0.
C29_PositivePlan ==
    AcceptedProfileCalled =>
        /\ ret.tag = "return"
        /\ ret.value.dailyCalories > 0
        /\ ret.value.macros.carbs > 0
        /\ ret.value.macros.fat > 0
        /\ ret.value.macros.protein > 0


---------------------------------------------------------------------------
\* processBodyComposition was called for a profile whose height the profile
\* route accepts
PlausibleHeightCalled ==
    /\ fn = "processBodyComposition"
    /\ arg.userProfile.height >= 100
    /\ arg.userProfile.height <= 250
    /\ arg.userProfile.sex \in Sexes

\* C30: with the fixed landmark set and the 1280x720 image size,
\* processBodyComposition returns a bodyFatPercentage of exactly 45 for every
\* profile with a height from 100 to 250 and either sex, whatever the photos
\* and the random variation.
C30_AlwaysFortyFive ==
    PlausibleHeightCalled =>
        /\ ret.tag = "return"
        /\ ret.bodyFatPercentage = Fin(4500)

C30_Witness ==
    /\ PlausibleHeightCalled
    /\ arg.userProfile.height = 250
    /\ arg.userProfile.sex = "female"
    /\ arg.random = 0
    /\ ret.bodyFatPercentage = Fin(4500)

=============================================================================
